---- MODULE Spec2Model ----
(***************************************************************************)
(* A model of the SOSIX browser agent (src/browser_agent.py and the        *)
(* components it drives).  The agent session is a state machine: a task is *)
(* started by execute_task, runs the scan -> decide -> act loop of         *)
(* _execute_iteratively and returns a status.  The LLM, the operator and   *)
(* the browser are the environment: their answers are inputs of the        *)
(* actions.                                                                *)
(*                                                                         *)
(* TLA+ strings are ASCII, so the Russian status and error texts of the    *)
(* source are written with these names:                                    *)
(*   "completed"               'завершена'                                 *)
(*   "stuck"                   'застрял'                                   *)
(*   "interrupted"             'прервано'                                  *)
(*   "max_iterations_reached"  'макс_итераций_достигнуто'                  *)
(*   "error"                   'ошибка'                                    *)
(*   "invalid_decision"        'Некорректное решение от LLM: ...'          *)
(*   "cancelled_by_operator"   'Действие отменено пользователем ...'       *)
(*   "not_performed:<action>"  'Действие <action> не выполнено'            *)
(*   "execution_error"         'Ошибка выполнения действия: ...'           *)
(* and the Cyrillic risk keywords are transliterated (see risk_keywords).  *)
(***************************************************************************)
EXTENDS Integers, Sequences, FiniteSets, TLC

(***************************************************************************)
(* Bounds of the model and constants of the program.                       *)
(***************************************************************************)
\* agent_config "max_iterations" (default 50): the loop bound, kept small here.
max_iterations == 4
\* How many execute_task calls one session makes in the model.
MaxTasks == 2
\* How many pages the browser ever creates in the model (page ids 1..MaxPages).
MaxPages == 4
MaxOpens == 2

max_unchanged_threshold == 2
consecutive_error_threshold == 3
max_error_history == 5

None == "None"

(***************************************************************************)
(* Strings: str.lower(), str.strip(), substring test, startswith, replace. *)
(***************************************************************************)
LowerChar(c) ==
    CASE c = "A" -> "a" [] c = "B" -> "b" [] c = "C" -> "c" [] c = "D" -> "d"
      [] c = "E" -> "e" [] c = "F" -> "f" [] c = "G" -> "g" [] c = "H" -> "h"
      [] c = "I" -> "i" [] c = "J" -> "j" [] c = "K" -> "k" [] c = "L" -> "l"
      [] c = "M" -> "m" [] c = "N" -> "n" [] c = "O" -> "o" [] c = "P" -> "p"
      [] c = "Q" -> "q" [] c = "R" -> "r" [] c = "S" -> "s" [] c = "T" -> "t"
      [] c = "U" -> "u" [] c = "V" -> "v" [] c = "W" -> "w" [] c = "X" -> "x"
      [] c = "Y" -> "y" [] c = "Z" -> "z" [] OTHER -> c

RECURSIVE lower(_)
lower(s) ==
    IF s = "" THEN ""
    ELSE LowerChar(SubSeq(s, 1, 1)) \o lower(SubSeq(s, 2, Len(s)))

RECURSIVE strip(_)
strip(s) ==
    IF s = "" THEN ""
    ELSE IF SubSeq(s, 1, 1) = " " THEN strip(SubSeq(s, 2, Len(s)))
    ELSE IF SubSeq(s, Len(s), Len(s)) = " " THEN strip(SubSeq(s, 1, Len(s) - 1))
    ELSE s

\* Python's `kw in s`
Contains(s, kw) ==
    \E i \in 1..(Len(s) + 1) :
        /\ i + Len(kw) - 1 <= Len(s)
        /\ SubSeq(s, i, i + Len(kw) - 1) = kw

StartsWith(s, p) == Len(p) <= Len(s) /\ SubSeq(s, 1, Len(p)) = p

\* Python's s.replace(m, "") for a non-empty m
RECURSIVE Remove(_, _)
Remove(s, m) ==
    IF s = "" THEN ""
    ELSE IF StartsWith(s, m) THEN Remove(SubSeq(s, Len(m) + 1, Len(s)), m)
    ELSE SubSeq(s, 1, 1) \o Remove(SubSeq(s, 2, Len(s)), m)

Digit(c) ==
    CASE c = "0" -> 0 [] c = "1" -> 1 [] c = "2" -> 2 [] c = "3" -> 3
      [] c = "4" -> 4 [] c = "5" -> 5 [] c = "6" -> 6 [] c = "7" -> 7
      [] c = "8" -> 8 [] c = "9" -> 9 [] OTHER -> -1

IsDigits(s) == s # "" /\ \A i \in 1..Len(s) : Digit(SubSeq(s, i, i)) >= 0

RECURSIVE DigitsValue(_)
DigitsValue(s) ==
    IF s = "" THEN 0
    ELSE 10 * DigitsValue(SubSeq(s, 1, Len(s) - 1)) + Digit(SubSeq(s, Len(s), Len(s)))

\* Python's int(s) on a string: an optional sign and decimal digits, else ValueError.
IsInt(s) ==
    LET t == strip(s)
    IN  IF StartsWith(t, "-") \/ StartsWith(t, "+")
        THEN IsDigits(SubSeq(t, 2, Len(t)))
        ELSE IsDigits(t)

ToInt(s) ==
    LET t == strip(s)
    IN  IF StartsWith(t, "-") THEN 0 - DigitsValue(SubSeq(t, 2, Len(t)))
        ELSE IF StartsWith(t, "+") THEN DigitsValue(SubSeq(t, 2, Len(t)))
        ELSE DigitsValue(t)

(***************************************************************************)
(* Locator arguments: a dict, modelled as a set of <<key, value>> pairs.   *)
(***************************************************************************)
NoArgs == {}

ArgsGet(args, key, default) ==
    IF \E p \in args : p[1] = key
    THEN (CHOOSE p \in args : p[1] = key)[2]
    ELSE default

(***************************************************************************)
(* Decisions.  The LLM's decision text is modelled by what parse_decision  *)
(* makes of it: `kind` says whether the text is empty, is not JSON, is a   *)
(* JSON value that is no object, is an object without "action", or is an   *)
(* object with the fields below (an absent or null field is "", absent     *)
(* args are NoArgs).  The kinds "object_numeric_action",                   *)
(* "object_numeric_value", "object_numeric_reason" and "object_list_args"  *)
(* are objects in which that field is a non-zero JSON number (a non-empty  *)
(* JSON list for args) instead of a string (an object); the field then     *)
(* holds the text of the number (the elements of the list).                *)
(***************************************************************************)
Decision(kind, action, strategy, args, value, reason, target) ==
    [kind |-> kind, action |-> action, strategy |-> strategy, args |-> args,
     value |-> value, reason |-> reason, target |-> target]

\* DecisionValidator.parse_decision: <<is_valid, parsed, error_msg>>
parse_decision(d) ==
    IF d.kind = "empty" THEN <<FALSE, None, "empty_response">>
    ELSE IF d.kind = "bad_json" THEN <<FALSE, None, "invalid_json">>
    ELSE IF d.kind = "not_object" THEN <<FALSE, None, "not_an_object">>
    ELSE IF d.kind = "no_action" THEN <<FALSE, None, "missing_action">>
    ELSE <<TRUE, d, "">>

valid_actions ==
    {"click", "fill", "type", "submit", "scroll", "goto",
     "wait", "ask_user", "wait_for_user_action", "confirm_complete", "press_key"}

locator_actions == {"click", "fill", "type", "submit"}

valid_strategies == {"role", "text", "label", "placeholder", "css", "aria-label", "id"}

\* DecisionValidator.validate_full_decision: <<is_valid, reason>>
validate_full_decision(d) ==
    LET action   == strip(lower(d.action))
        strategy == strip(lower(d.strategy))
        args     == d.args
        value    == strip(d.value)
    IN  IF action \notin valid_actions THEN <<FALSE, "unknown_action">>
        ELSE IF action \in locator_actions /\ strategy = ""
            THEN <<FALSE, "strategy_required">>
        ELSE IF action \in locator_actions /\ strategy \notin valid_strategies
            THEN <<FALSE, "unknown_strategy">>
        ELSE IF action \in locator_actions /\ args = NoArgs
            THEN <<FALSE, "args_required">>
        ELSE IF action \in {"fill", "type"} /\ value = ""
            THEN <<FALSE, "value_required">>
        ELSE IF action = "goto" /\ d.target = ""
            THEN <<FALSE, "target_required">>
        ELSE IF action = "goto" /\ ~(StartsWith(d.target, "http://") \/ StartsWith(d.target, "https://"))
            THEN <<FALSE, "target_not_http">>
        ELSE IF action = "wait" /\ value # "" /\ ~IsInt(value)
            THEN <<FALSE, "wait_not_numeric">>
        ELSE IF action = "wait" /\ value # "" /\ (ToInt(value) < 0 \/ ToInt(value) > 60000)
            THEN <<FALSE, "wait_out_of_range">>
        ELSE IF action = "scroll" /\ value # "" /\ lower(value) \notin {"up", "down"}
            THEN <<FALSE, "bad_direction">>
        ELSE <<TRUE, "">>

(***************************************************************************)
(* The browser: the context's pages (in creation order), the page each     *)
(* component is bound to, and the number of pages created so far.          *)
(***************************************************************************)
Browser(pages, agent, analyzer, executor, disambiguation, created) ==
    [pages |-> pages, agent |-> agent, analyzer |-> analyzer,
     executor |-> executor, disambiguation |-> disambiguation, created |-> created]

\* BrowserAgent.initialize: one page, the executor and the analyzer bound to it.
initialize ==
    Browser(<<1>>, 1, 1, 1, 1, 1)

RECURSIVE Keep(_, _)
Keep(pages, keep) ==
    IF pages = <<>> THEN <<>>
    ELSE IF Head(pages) \in keep THEN <<Head(pages)>> \o Keep(Tail(pages), keep)
    ELSE Keep(Tail(pages), keep)

\* A click that switches to the new tab and closes no page.
click_new_tab_closing_none(b, opens, loads) ==
    LET all_pages == b.pages \o [i \in 1..opens |-> b.created + i]
    IN  IF opens > 0
        THEN IF loads
             THEN [b EXCEPT !.pages = all_pages,
                            !.executor = all_pages[Len(all_pages)],
                            !.disambiguation = all_pages[Len(all_pages)],
                            !.created = b.created + opens]
             ELSE [b EXCEPT !.pages = all_pages, !.created = b.created + opens]
        ELSE b

\* ActionExecutor.click, lines 269-304: the click may open `opens` tabs; the
\* executor switches to the last one when it loads and closes every page
\* except the new one and the first one.
click_new_tab(b, opens, loads) ==
    LET pages_before == Len(b.pages)
        all_pages == b.pages \o [i \in 1..opens |-> b.created + i]
        pages_after == Len(all_pages)
        new_page == all_pages[Len(all_pages)]
    IN  IF pages_after > pages_before
        THEN IF loads
             THEN [b EXCEPT !.pages = Keep(all_pages, {new_page, all_pages[1]}),
                            !.executor = new_page,
                            !.disambiguation = new_page,
                            !.created = b.created + opens]
             ELSE [b EXCEPT !.pages = all_pages, !.created = b.created + opens]
        ELSE b

(***************************************************************************)
(* Action Executor.  `e` is what the page and the driver do for this       *)
(* operation: e.count elements match the lookup, e.raises is the message   *)
(* of the exception the driver raises on the action ("none": it does not), *)
(* e.opens tabs are opened by a click and e.loads says whether the new tab *)
(* reaches domcontentloaded.                                               *)
(***************************************************************************)
\* ActionExecutor._build_locator_from_strategy: the kind of locator built.
\*   "invalid": page.locator(":invalid"), matches nothing
\*   "first":   a lookup narrowed with .first, matches at most one element
\*   "lookup":  a lookup, matches every element the page has for it
_build_locator_from_strategy(strategy, args) ==
    IF strategy = "role" THEN "lookup"
    ELSE IF strategy = "label"
        THEN IF ArgsGet(args, "label", "") # "" THEN "lookup" ELSE "invalid"
    ELSE IF strategy = "placeholder"
        THEN IF ArgsGet(args, "placeholder", "") # "" THEN "lookup" ELSE "first"
    ELSE IF strategy = "text"
        THEN IF ArgsGet(args, "text", "") # "" THEN "first" ELSE "invalid"
    ELSE IF strategy = "alt"
        THEN IF ArgsGet(args, "alt", "") # "" THEN "lookup" ELSE "invalid"
    ELSE IF strategy = "title"
        THEN IF ArgsGet(args, "title", "") # "" THEN "lookup" ELSE "invalid"
    ELSE IF strategy = "testid"
        THEN IF ArgsGet(args, "testid", "") # "" THEN "lookup" ELSE "invalid"
    ELSE IF strategy = "id"
        THEN IF ArgsGet(args, "id", "") # "" THEN "lookup" ELSE "invalid"
    ELSE IF strategy = "name"
        THEN IF ArgsGet(args, "name", "") # "" THEN "lookup" ELSE "invalid"
    ELSE IF StartsWith(strategy, "data-")
        THEN IF ArgsGet(args, strategy, "") # "" THEN "lookup" ELSE "invalid"
    ELSE IF strategy = "aria-label"
        THEN IF ArgsGet(args, "aria-label", "") # "" THEN "lookup" ELSE "invalid"
    ELSE "invalid"

\* locator.count() of the locator built for (strategy, args) on a page that
\* has `count` elements for the lookup.
locator_count(strategy, args, count) ==
    LET kind == _build_locator_from_strategy(strategy, args)
    IN  IF kind = "invalid" THEN 0
        ELSE IF kind = "first" THEN (IF count > 0 THEN 1 ELSE 0)
        ELSE count

\* The executor's result dict: error "" means no "error" key, reason None no
\* "reason" key.
ExecResult(success, error, reason, count) ==
    [success |-> success, error |-> error, reason |-> reason, count |-> count]

\* `result = None`: no branch of the dispatch set a result.
NoResult == ExecResult(FALSE, "", None, 0)

\* ActionExecutor.click, the except branch: the reason for the driver's message.
click_reason(error_msg) ==
    IF Contains(error_msg, "not visible") \/ Contains(error_msg, "not in viewport")
        THEN "Element not visible to user (off-screen or hidden)"
    ELSE IF Contains(error_msg, "disabled") \/ Contains(error_msg, "not enabled")
        THEN "Element is disabled"
    ELSE IF Contains(error_msg, "not stable")
        THEN "Element not stable in DOM (moving or detached)"
    ELSE IF Contains(error_msg, "no element matches") \/ Contains(error_msg, "no such element")
        THEN "Element not found in DOM"
    ELSE IF Contains(error_msg, "pointer-events")
        THEN "Element cannot receive events (pointer-events)"
    ELSE IF Contains(error_msg, "hidden behind") \/ Contains(error_msg, "covered")
        THEN "Element covered by another element"
    ELSE error_msg

\* ActionExecutor.click: <<result, browser after, clicked>>
click(b, locator_strategy, locator_args, allow_multiple, e) ==
    IF locator_strategy = "" \/ locator_args = NoArgs
    THEN <<ExecResult(FALSE, "invalid_params", "strategy or args empty", 0), b, FALSE>>
    ELSE LET count == locator_count(locator_strategy, locator_args, e.count)
         IN  IF count = 0
             THEN <<ExecResult(FALSE, "element_not_found", None, 0), b, FALSE>>
             ELSE IF count > 1 /\ ~allow_multiple
             THEN <<ExecResult(FALSE, "multiple_matches",
                               "selector matched several elements", count), b, FALSE>>
             ELSE IF e.raises # "none"
             THEN <<ExecResult(FALSE, "actionability", click_reason(e.raises), 0), b, FALSE>>
             ELSE <<ExecResult(TRUE, "", None, 0), click_new_tab(b, e.opens, e.loads), TRUE>>

\* ActionExecutor.fill, the except branch.
fill_reason(error_msg) ==
    IF Contains(error_msg, "not visible") \/ Contains(error_msg, "not in viewport")
        THEN "Field not visible"
    ELSE IF Contains(error_msg, "disabled") \/ Contains(error_msg, "readonly")
        THEN "Field is disabled or readonly"
    ELSE IF Contains(error_msg, "not supported") \/ Contains(error_msg, "not editable")
        THEN "Field cannot be filled (not input/textarea)"
    ELSE IF Contains(error_msg, "no element matches")
        THEN "Field not found"
    ELSE error_msg

\* ActionExecutor.fill: <<result, filled>>
fill(locator_strategy, locator_args, e) ==
    IF locator_strategy = "" \/ locator_args = NoArgs
    THEN <<ExecResult(FALSE, "invalid_params", None, 0), FALSE>>
    ELSE LET count == locator_count(locator_strategy, locator_args, e.count)
         IN  IF count = 0
             THEN <<ExecResult(FALSE, "element_not_found", None, 0), FALSE>>
             ELSE IF count > 50
             THEN <<ExecResult(FALSE, "strategy_too_generic", None, count), FALSE>>
             ELSE IF count > 1
             THEN <<ExecResult(FALSE, "strict_mode_violation", None, count), FALSE>>
             ELSE IF e.raises # "none"
             THEN <<ExecResult(FALSE, "actionability", fill_reason(e.raises), 0), FALSE>>
             ELSE <<ExecResult(TRUE, "", None, 0), TRUE>>

\* ActionExecutor.type_text, the except branch.
type_reason(error_msg) ==
    IF Contains(error_msg, "not visible") \/ Contains(error_msg, "not in viewport")
        THEN "Element not visible"
    ELSE IF Contains(error_msg, "disabled") \/ Contains(error_msg, "not enabled")
        THEN "Element is disabled"
    ELSE IF Contains(error_msg, "no element matches")
        THEN "Element not found"
    ELSE IF Contains(error_msg, "not editable") \/ Contains(error_msg, "not supported")
        THEN "Element cannot be filled (not input/textarea)"
    ELSE error_msg

\* ActionExecutor.type_text: <<result, typed>>
type_text(locator_strategy, locator_args, e) ==
    IF locator_strategy = "" \/ locator_args = NoArgs
    THEN <<ExecResult(FALSE, "invalid_params", None, 0), FALSE>>
    ELSE LET count == locator_count(locator_strategy, locator_args, e.count)
         IN  IF count = 0
             THEN <<ExecResult(FALSE, "element_not_found", None, 0), FALSE>>
             ELSE IF count > 1
             THEN <<ExecResult(FALSE, "strict_mode_violation", None, count), FALSE>>
             ELSE IF e.raises # "none"
             THEN <<ExecResult(FALSE, "actionability", type_reason(e.raises), 0), FALSE>>
             ELSE <<ExecResult(TRUE, "", None, 0), TRUE>>

\* ActionExecutor.goto: the boolean it returns.
goto(e) == e.raises = "none"

\* ActionExecutor.scroll: the boolean it returns (a direction that is neither
\* "down" nor "up" presses no key and returns True as well).
scroll(direction, e) ==
    IF lower(direction) \in {"down", "up"} THEN e.raises = "none" ELSE TRUE

\* ActionExecutor.wait_for_timeout: sleeps (a negative delay returns at once)
\* and returns True.
wait_for_timeout(ms) == TRUE

\* ActionExecutor.press_key: <<result, pressed>>.  e.raises is what the
\* driver's press raises ("none": nothing).
press_key(key, locator_strategy, locator_args, e) ==
    IF locator_strategy # "" /\ locator_args # NoArgs
           /\ locator_count(locator_strategy, locator_args, e.count) = 0
    THEN <<ExecResult(FALSE, "element_not_found", None, 0), FALSE>>
    ELSE IF e.raises # "none"
    THEN <<ExecResult(FALSE, "key_press_failed", e.raises, 0), FALSE>>
    ELSE <<ExecResult(TRUE, "", None, 0), TRUE>>

\* The methods the class ActionExecutor defines.
ActionExecutorMethods ==
    {"__init__", "_build_locator_from_strategy", "click", "fill", "type_text", "goto",
     "scroll", "press_key", "wait_for_user_action", "close_modal", "wait_for_timeout"}

\* self.<name>(key) inside close_modal: a name the class does not define
\* raises AttributeError, which the except branch of close_modal turns into
\* the modal_close_failed result.
call_method(name, key, e) ==
    IF name \notin ActionExecutorMethods
    THEN <<ExecResult(FALSE, "modal_close_failed", "no attribute " \o name, 0), FALSE>>
    ELSE press_key(key, "", NoArgs, e)

\* The close_strategy argument: present is FALSE for None and for {}, type ""
\* for a dict without "type".
CloseStrategy(present, type, strategy, args) ==
    [present |-> present, type |-> type, strategy |-> strategy, args |-> args]

\* ActionExecutor.close_modal: <<result, browser after, Escape pressed>>
close_modal(close_strategy, b, e) ==
    LET strategy_type == IF close_strategy.type = "" THEN "button" ELSE close_strategy.type
        esc == call_method("key_press", "Escape", e)
    IN  IF ~close_strategy.present THEN <<esc[1], b, esc[2]>>
        ELSE IF strategy_type = "button"
        THEN IF close_strategy.strategy # "" /\ close_strategy.args # NoArgs
             THEN LET r == click(b, close_strategy.strategy, close_strategy.args, FALSE, e)
                  IN  <<r[1], r[2], FALSE>>
             ELSE <<esc[1], b, esc[2]>>
        ELSE IF strategy_type = "esc" THEN <<esc[1], b, esc[2]>>
        ELSE IF strategy_type = "outside"
        THEN IF e.raises # "none"
             THEN <<ExecResult(FALSE, "outside_click_failed", None, 0), b, FALSE>>
             ELSE <<ExecResult(TRUE, "", None, 0), b, FALSE>>
        ELSE <<ExecResult(FALSE, "unknown_close_strategy", None, 0), b, FALSE>>

\* AgentLogger.confirm: True only for y / yes
confirm(typed) == lower(strip(typed)) \in {"y", "yes"}

(***************************************************************************)
(* BrowserAgent._execute_decision.                                         *)
(***************************************************************************)
\* The risk keywords of the security gate; the Cyrillic ones transliterated:
\* "оплат", "платёж", "pay", "confirm", "удали", "delete", "отправить".
risk_keywords == {"oplat", "platezh", "pay", "confirm", "udali", "delete", "otpravit"}

\* One operation on a page: its name and the page it is performed on.
Op(name, page) == [op |-> name, page |-> page]

\* The operations of the Action Executor (keyboard.press is the agent's own).
ExecutorOps ==
    {"click", "fill", "type_text", "goto", "scroll", "wait_for_timeout",
     "wait_for_user_action"}

\* The dict _execute_decision returns ("" / FALSE: the key is absent), with
\* what the call did: the operations it invoked, whether the operator was
\* asked to confirm, the browser afterwards.
ActionResult(error, success, user_input, task_complete, has_action, action, strategy, args, ops, confirm_asked, b) ==
    [error |-> error, success |-> success, user_input |-> user_input,
     task_complete |-> task_complete, has_action |-> has_action,
     action |-> action, strategy |-> strategy, args |-> args,
     ops |-> ops, confirm_asked |-> confirm_asked, b |-> b]

ErrorResult(error, ops, confirm_asked, b) ==
    ActionResult(error, FALSE, "", FALSE, FALSE, "", "", NoArgs, ops, confirm_asked, b)

\* Lines 1883-1892: the executor's result turned into the action result.
check_result(action, result, ops, confirm_asked, b) ==
    IF result.success
    THEN ActionResult("", TRUE, "", FALSE, FALSE, "", "", NoArgs, ops, confirm_asked, b)
    ELSE IF result.error # ""
    THEN ErrorResult(IF result.reason # None THEN result.reason ELSE result.error,
                     ops, confirm_asked, b)
    ELSE ErrorResult("not_performed:" \o action, ops, confirm_asked, b)

\* Lines 1601-1624: is the decision blocked as a repeat of the last record?
is_blocked_repeat(action, strategy, args, unchanged_count, failed) ==
    /\ unchanged_count > 0
    /\ failed # <<>>
    /\ LET last_failed == failed[Len(failed)]
       IN  <<action, strategy, args>>
               = <<last_failed.action, last_failed.strategy, last_failed.args>>

\* A security gate that asks for clicks only.
needs_confirmation_of_clicks(is_risky, action, strategy, reason) ==
    /\ is_risky
    /\ action = "click"
    /\ \E kw \in risk_keywords :
           Contains(lower(strategy), kw) \/ Contains(lower(reason), kw)

\* Lines 1646-1657: does the security gate ask the operator?
needs_confirmation(is_risky, action, strategy, reason) ==
    /\ is_risky
    /\ action \in {"submit", "click", "confirm_complete"}
    /\ \E kw \in risk_keywords :
           Contains(lower(strategy), kw) \/ Contains(lower(reason), kw)

\* Lines 1666-1751: click, with the LLM disambiguation of several matches.
dispatch_click(action, strategy, args, b, e, confirm_asked) ==
    LET first == click(b, strategy, args, FALSE, e)
        ops1 == <<Op("click", b.executor)>>
    IN  IF first[1].error \in {"strict_mode_violation", "multiple_matches"}
        THEN IF e.disambig.kind \in {"raise", "bad_json"}
             THEN ErrorResult("strict_mode_disambiguation_failed", ops1, confirm_asked, first[2])
             ELSE IF e.disambig.kind = "empty"
             THEN ErrorResult("empty_disambig_response", ops1, confirm_asked, first[2])
             ELSE IF e.disambig.kind \in {"empty_list", "empty_object", "not_object"}
             THEN ErrorResult("disambig_response_invalid", ops1, confirm_asked, first[2])
             ELSE LET strategy2 == IF e.disambig.strategy # None
                                   THEN e.disambig.strategy ELSE strategy
                      args2 == IF e.disambig.has_args THEN e.disambig.args ELSE args
                      second == click(first[2], strategy2, args2, TRUE, e)
                  IN  check_result(action, second[1],
                                   ops1 \o <<Op("click", first[2].executor)>>,
                                   confirm_asked, second[2])
        ELSE check_result(action, first[1], ops1, confirm_asked, first[2])

\* Lines 1753-1808: fill, with the LLM disambiguation of a strict-mode violation.
dispatch_fill(action, strategy, args, b, e, confirm_asked) ==
    LET first == fill(strategy, args, e)
        ops1 == <<Op("fill", b.executor)>>
    IN  IF first[1].error = "strict_mode_violation"
        THEN IF e.disambig.kind \in {"raise", "bad_json"}
             THEN ErrorResult("field_disambiguation_failed", ops1, confirm_asked, b)
             ELSE IF e.disambig.kind = "empty"
             THEN ErrorResult("empty_disambig_response", ops1, confirm_asked, b)
             ELSE IF e.disambig.kind \in {"empty_list", "empty_object", "not_object"}
             THEN ErrorResult("fill_disambig_failed", ops1, confirm_asked, b)
             ELSE LET strategy2 == IF e.disambig.strategy # None
                                   THEN e.disambig.strategy ELSE strategy
                      args2 == IF e.disambig.has_args THEN e.disambig.args ELSE args
                      second == fill(strategy2, args2, e)
                  IN  check_result(action, second[1], ops1 \o <<Op("fill", b.executor)>>,
                                   confirm_asked, b)
        ELSE check_result(action, first[1], ops1, confirm_asked, b)

\* Lines 1659-1897: the dispatch of a decision that passed the checks above.
dispatch(action, strategy, args, value, reason, b, e, confirm_asked) ==
    IF action = "click"
        THEN dispatch_click(action, strategy, args, b, e, confirm_asked)
    ELSE IF action = "fill"
        THEN dispatch_fill(action, strategy, args, b, e, confirm_asked)
    ELSE IF action = "type"
        THEN check_result(action, type_text(strategy, args, e)[1],
                          <<Op("type_text", b.executor)>>, confirm_asked, b)
    ELSE IF action = "submit"
        THEN LET r == click(b, strategy, args, FALSE, e)
             IN  check_result(action, r[1], <<Op("click", b.executor)>>, confirm_asked, r[2])
    ELSE IF action = "goto"
        THEN check_result(action, ExecResult(goto(e), "", None, 0),
                          <<Op("goto", b.executor)>>, confirm_asked, b)
    ELSE IF action = "scroll"
        THEN LET direction == lower(IF value # "" THEN value ELSE "down")
             IN  check_result(action, ExecResult(scroll(direction, e), "", None, 0),
                              <<Op("scroll", b.executor)>>, confirm_asked, b)
    ELSE IF action = "wait"
        THEN IF value # "" /\ ~IsInt(value)
             THEN ErrorResult("execution_error", <<>>, confirm_asked, b)
             ELSE check_result(action, ExecResult(TRUE, "", None, 0),
                               <<Op("wait_for_timeout", b.executor)>>, confirm_asked, b)
    ELSE IF action = "ask_user"
        THEN ActionResult("", FALSE, strip(e.answer), FALSE, FALSE, "", "", NoArgs,
                          <<>>, confirm_asked, b)
    ELSE IF action = "wait_for_user_action"
        THEN ActionResult("", TRUE, "", FALSE, FALSE, "", "", NoArgs,
                          <<Op("wait_for_user_action", b.executor)>>, confirm_asked, b)
    ELSE IF action = "press_key"
        THEN IF e.raises = "none"
             THEN check_result(action, ExecResult(TRUE, "", None, 0),
                               <<Op("keyboard.press", b.agent)>>, confirm_asked, b)
             ELSE check_result(action, ExecResult(FALSE, e.raises, None, 0),
                               <<Op("keyboard.press", b.agent)>>, confirm_asked, b)
    ELSE IF action = "confirm_complete"
        THEN ActionResult("", FALSE, "", TRUE, FALSE, "", "", NoArgs, <<>>, confirm_asked, b)
    ELSE check_result(action, NoResult, <<>>, confirm_asked, b)

\* BrowserAgent._execute_decision
_execute_decision(d, unchanged_count, failed, is_risky, b, e) ==
    LET p == parse_decision(d)
    IN  IF ~p[1]
        THEN ErrorResult("invalid_decision:" \o p[3], <<>>, FALSE, b)
        ELSE
        LET action    == strip(lower(d.action))
            strategy0 == strip(lower(d.strategy))
            \* lines 1584-1589: args built from strategy and value
            args0     == IF d.args = NoArgs /\ strategy0 # "" /\ d.value # ""
                         THEN {<<strategy0, d.value>>} ELSE d.args
            text      == ArgsGet(args0, "text", "")
            \* lines 1626-1644: the [aria-label] and [id] markers
            fix_aria  == strategy0 = "text" /\ StartsWith(text, "[aria-label]")
            fix_id    == strategy0 = "text" /\ ~fix_aria /\ StartsWith(text, "[id]")
            strategy  == IF fix_aria THEN "aria-label" ELSE IF fix_id THEN "id" ELSE strategy0
            args      == IF fix_aria
                         THEN {<<"aria-label", strip(Remove(text, "[aria-label]"))>>}
                         ELSE IF fix_id THEN {<<"id", strip(Remove(text, "[id]"))>>}
                         ELSE args0
            ask       == needs_confirmation(is_risky, action, strategy, d.reason)
        IN  IF is_blocked_repeat(action, strategy0, args0, unchanged_count, failed)
            THEN ActionResult("BLOCKED_REPEATED_ACTION", FALSE, "", FALSE, TRUE,
                              action, strategy0, args0, <<>>, FALSE, b)
            ELSE IF ask /\ ~confirm(e.confirm)
            THEN ErrorResult("cancelled_by_operator", <<>>, TRUE, b)
            ELSE dispatch(action, strategy, args, d.value, d.reason, b, e, ask)

\* Lines 1578-1657, the statements before the try block: does one of them
\* raise (AttributeError, TypeError) on the parsed decision?
\*   1578: (action or "").lower() on a number
\*   1586, 1592: value[:40], value[:50] on a number
\*   1626: args.get on a list, evaluated when the strategy is "text"
\*   1650: (reason or "").lower() on a number, evaluated by the security
\*         gate unless the strategy contains the first keyword
decision_raises(d, is_risky, unchanged_count, failed) ==
    LET action   == strip(lower(d.action))
        strategy == strip(lower(d.strategy))
        blocked  == is_blocked_repeat(action, strategy, d.args, unchanged_count, failed)
    IN  IF d.kind = "object_numeric_action" THEN TRUE
        ELSE IF d.kind = "object_numeric_value" THEN TRUE
        ELSE IF d.kind = "object_list_args" THEN ~blocked /\ strategy = "text"
        ELSE IF d.kind = "object_numeric_reason"
        THEN /\ ~blocked
             /\ is_risky
             /\ action \in {"submit", "click", "confirm_complete"}
             /\ ~Contains(strategy, "oplat")
        ELSE FALSE

\* AgentLogger.indent and AgentLogger.dedent
indent(level) == level + 1
dedent(level) == IF level > 0 THEN level - 1 ELSE level

\* The returns of _execute_decision inside the try block that no dedent
\* precedes (lines 1730, 1740, 1751, 1790, 1799, 1808).
disambiguation_returns ==
    {"empty_disambig_response", "disambig_response_invalid",
     "strict_mode_disambiguation_failed", "fill_disambig_failed",
     "field_disambiguation_failed"}

\* The logger's indent level when _execute_decision has returned
\* action_result: the returns before line 1661 leave it alone, line 1661
\* indents, and lines 1847, 1856, 1875, 1881 and 1896 dedent before the
\* other returns.
indent_after_decision(action_result, level) ==
    IF \/ StartsWith(action_result.error, "invalid_decision:")
       \/ action_result.error \in {"BLOCKED_REPEATED_ACTION", "cancelled_by_operator"}
    THEN level
    ELSE IF action_result.error \in disambiguation_returns
    THEN indent(level)
    ELSE dedent(indent(level))

(***************************************************************************)
(* BrowserAgent.execute_task, up to the loop: the start URL and the        *)
(* navigation to it.  nav.url says whether a start URL was found;          *)
(* nav.goto1 / nav.goto2 are what the first and the second page.goto do    *)
(* ("ok", "unresolved": a name-resolution or unreachable error, "other":   *)
(* any other error); nav.search is the LLM's answer to the search prompt.  *)
(***************************************************************************)
MAX_RETRIES == 1

Nav(url, goto1, search, goto2) ==
    [url |-> url, goto1 |-> goto1, search |-> search, goto2 |-> goto2,
     check |-> "relevant"]

\* The same with what the verification of a loaded search page does:
\* "relevant", "refined" (a refined query is loaded with one more goto),
\* "not_refined", or "raise" (reading the page raises).
NavChecked(nav, check) == [nav EXCEPT !.check = check]

\* A retry loop that allows one retry more.
RECURSIVE navigate_once_more(_, _, _)
navigate_once_more(nav, retry_count, gotos) ==
    LET goto_result == IF gotos = 0 THEN nav.goto1 ELSE nav.goto2
    IN  IF goto_result = "ok" THEN [status |-> "loaded", gotos |-> gotos + 1]
        ELSE IF goto_result = "other"
        THEN [status |-> "navigation_error", gotos |-> gotos + 1]
        ELSE IF retry_count + 1 <= MAX_RETRIES + 1
        THEN IF nav.search = "raise"
             THEN [status |-> "network_error", gotos |-> gotos + 1]
             ELSE IF nav.search = "empty" THEN [status |-> None, gotos |-> gotos + 1]
             ELSE IF nav.search \in {"no_query", "bad_json"}
             THEN [status |-> "navigation_error", gotos |-> gotos + 1]
             ELSE navigate_once_more(nav, retry_count + 1, gotos + 1)
        ELSE [status |-> "network_error", gotos |-> gotos + 1]

\* Lines 161-254, the retry loop from the state (retry_count, gotos made so
\* far): the status it returns ("loaded": the loop ends with the page
\* loaded; None: line 207 returns None) and the page.goto calls made.  The
\* first goto does nav.goto1, a later one nav.goto2.
RECURSIVE navigate(_, _, _)
navigate(nav, retry_count, gotos) ==
    LET goto_result == IF gotos = 0 THEN nav.goto1 ELSE nav.goto2
    IN  IF goto_result = "ok" THEN [status |-> "loaded", gotos |-> gotos + 1]
        ELSE IF goto_result = "other"
        THEN [status |-> "navigation_error", gotos |-> gotos + 1]
        ELSE \* a name-resolution or unreachable error: retry_count += 1
             IF retry_count + 1 <= MAX_RETRIES
        THEN IF nav.search = "raise"
             THEN [status |-> "network_error", gotos |-> gotos + 1]
             ELSE IF nav.search = "empty" THEN [status |-> None, gotos |-> gotos + 1]
             ELSE IF nav.search \in {"no_query", "bad_json"}
             THEN [status |-> "navigation_error", gotos |-> gotos + 1]
             ELSE navigate(nav, retry_count + 1, gotos + 1)
        ELSE [status |-> "network_error", gotos |-> gotos + 1]

\* Lines 132-301: the status returned before the loop ("loop": the loop is
\* entered), with the page.goto calls of the retry loop and of the
\* refinement of a search (lines 256-301, made when the page loaded is the
\* search page; the start URL itself is taken not to be a search URL).
start_navigation(nav) ==
    IF ~nav.url THEN [status |-> "error", gotos |-> 0, refine_gotos |-> 0]
    ELSE LET loaded == navigate(nav, 0, 0)
         IN  IF loaded.status # "loaded"
             THEN [status |-> loaded.status, gotos |-> loaded.gotos, refine_gotos |-> 0]
             ELSE IF loaded.gotos > 1 /\ nav.check = "raise"
             THEN [status |-> "error", gotos |-> loaded.gotos, refine_gotos |-> 0]
             ELSE IF loaded.gotos > 1 /\ nav.check = "refined"
             THEN [status |-> "loop", gotos |-> loaded.gotos, refine_gotos |-> 1]
             ELSE [status |-> "loop", gotos |-> loaded.gotos, refine_gotos |-> 0]

(***************************************************************************)
(* The loop of BrowserAgent._execute_iteratively.                          *)
(***************************************************************************)
\* BrowserAgent._has_page_changed: the unchanged-page count afterwards.
_has_page_changed(current_fingerprint, previous, unchanged_count) ==
    IF previous = None THEN unchanged_count
    ELSE IF current_fingerprint # previous THEN 0
    ELSE unchanged_count + 1

\* Lines 865-877: the record of a parsed decision ("" is an absent key).
attempt_record(d, action_result) ==
    [action |-> IF d.action = "" THEN "unknown" ELSE d.action,
     strategy |-> IF d.strategy = "" THEN "unknown" ELSE d.strategy,
     args |-> d.args,
     has_success |-> TRUE,
     success |-> action_result.error = ""]

\* Lines 907-914: the record of a failed result that carries an "action" key.
failure_record(action_result) ==
    [action |-> action_result.action,
     strategy |-> action_result.strategy,
     args |-> action_result.args,
     has_success |-> FALSE,
     success |-> FALSE]

\* Lines 865-879 and 906-914: the attempted-action history after a decision.
record_attempt(failed, d, action_result) ==
    LET first == IF parse_decision(d)[1]
                 THEN Append(failed, attempt_record(d, action_result))
                 ELSE failed
    IN  IF /\ ~action_result.task_complete
           /\ action_result.user_input = ""
           /\ action_result.error # ""
           /\ action_result.has_action
        THEN Append(first, failure_record(action_result))
        ELSE first

\* Lines 927-930: the error history after one more error.
push_error(history, error_msg) ==
    LET h == Append(history, error_msg)
    IN  IF Len(h) > max_error_history THEN Tail(h) ELSE h

\* A count of the error's occurrences anywhere in the history.
consecutive_same_errors_anywhere(history, current_error) ==
    Cardinality({i \in DOMAIN history : history[i] = current_error})

\* Lines 933-940: how many of the last entries equal the error.
RECURSIVE consecutive_same_errors(_, _)
consecutive_same_errors(history, current_error) ==
    IF history = <<>> THEN 0
    ELSE IF history[Len(history)] = current_error
    THEN 1 + consecutive_same_errors(SubSeq(history, 1, Len(history) - 1), current_error)
    ELSE 0

\* A circuit breaker A that trips one unchanged page later.
after_action_late(action_result, unchanged_count, history) ==
    IF action_result.task_complete THEN "completed"
    ELSE IF action_result.user_input # "" THEN "retry"
    ELSE IF action_result.error # ""
    THEN IF unchanged_count > max_unchanged_threshold THEN "stuck"
         ELSE IF consecutive_same_errors(push_error(history, action_result.error),
                                         action_result.error)
                     >= consecutive_error_threshold
              THEN "stuck"
         ELSE "next"
    ELSE "next"

\* A loop without the same-error circuit breaker.
after_action_without_b(action_result, unchanged_count, history) ==
    IF action_result.task_complete THEN "completed"
    ELSE IF action_result.user_input # "" THEN "retry"
    ELSE IF action_result.error # ""
    THEN IF unchanged_count >= max_unchanged_threshold THEN "stuck" ELSE "next"
    ELSE "next"

\* Lines 881-971: what the loop does with an action result:
\* "completed", "stuck", "retry" (ask_user: continue) or "next".
after_action(action_result, unchanged_count, history) ==
    IF action_result.task_complete THEN "completed"
    ELSE IF action_result.user_input # "" THEN "retry"
    ELSE IF action_result.error # ""
    THEN IF unchanged_count >= max_unchanged_threshold THEN "stuck"
         ELSE IF consecutive_same_errors(push_error(history, action_result.error),
                                         action_result.error)
                     >= consecutive_error_threshold
              THEN "stuck"
         ELSE "next"
    ELSE "next"

\* Lines 901-954: the error history after an action result.
history_after(action_result, unchanged_count, history) ==
    IF action_result.task_complete \/ action_result.user_input # "" THEN history
    ELSE IF action_result.error # ""
    THEN IF unchanged_count >= max_unchanged_threshold THEN history
         ELSE push_error(history, action_result.error)
    ELSE <<>>

(***************************************************************************)
(* State.                                                                  *)
(***************************************************************************)
VARIABLES
    phase,                       \* "idle": no task is running; "loop": inside _execute_iteratively
    tasks_started,               \* execute_task calls made so far
    status,                      \* status of the last result returned ("none": none yet / running)
    is_risky,                    \* current_task.is_risky
    iteration_count,             \* BrowserAgent.iteration_count
    previous_page_state,         \* BrowserAgent.previous_page_state
    page_state_unchanged_count,  \* BrowserAgent.page_state_unchanged_count
    error_history,               \* BrowserAgent.error_history
    failed_actions,              \* BrowserAgent.failed_actions
    context_pages,               \* the browser context's pages, in creation order
    page,                        \* BrowserAgent.page
    analyzer_page,               \* PageAnalyzer.page
    executor_page,               \* ActionExecutor.page
    disambiguation_page,         \* DisambiguationLayer.page
    pages_created,               \* pages created so far (the next page id - 1)
    last,                        \* what the last step did (observation only)
    decision_errors,             \* the errors ("": none) of the task's latest decisions,
                                 \* at most consecutive_error_threshold (observation only)
    api_phase,                   \* _call_with_retry: "idle", "calling", "returned", "raised"
    api_calls,                   \* calls of _call_with_retry started so far
    use_history,                 \* the use_history argument of the current call
    attempt,                     \* the local attempt counter of the current call
    api_result,                  \* what the call returned (None: nothing)
    conversation_history,        \* NvidiaAPIClient.conversation_history
    api_log,                     \* the responses to the posts of the current call
                                 \* (observation only)
    api_payload,                 \* the messages of the payload of the latest post
                                 \* (observation only)
    api_sleeps,                  \* the seconds of the time.sleep calls of the current
                                 \* call, in order (observation only)
    stream_phase,                \* stream_call: "idle", "streaming", "returned", "raised"
    stream_input,                \* the lines of the response of the current stream_call
    stream_pos,                  \* the lines consumed so far
    stream_yielded,              \* the fragments yielded so far (observation only)
    stream_attempt,              \* stream_call's local attempt counter
    exec_call,                   \* the latest direct call of an ActionExecutor method
                                 \* (observation only)
    exec_result,                 \* what it returned and whether it acted on an element
    parse_call,                  \* the latest direct call of parse_decision: the text
                                 \* given and how it was composed (observation only)
    parse_result,                \* what it returned
    config_call,                 \* the latest call of get_nvidia_api_config: the
                                 \* configured source and the values found (observation only)
    config_result,               \* what it returned or raised
    main_pc,                     \* main(): "start", "constructed", "prompt", "ended",
                                 \* "no_agent" (the constructor raised)
    shutdown_calls,              \* calls of agent.shutdown so far
    main_log,                    \* what happened at each prompt so far (observation only)
    analysis_call,               \* the latest call of PageAnalyzer.analyze: the modal
                                 \* candidates of the page (observation only)
    analysis_result,             \* modal_window_open of _get_search_hints and
                                 \* modal_open of the analysis
    verdict_call,                \* the latest LLM check of the agent: which check, the
                                 \* client's stream default, the reply (observation only)
    verdict_result,              \* what the check returned
    shutdown_log,                \* the latest agent.shutdown: the resources the agent
                                 \* held, the closes attempted, what it logged
                                 \* (observation only)
    indent_level                 \* AgentLogger.indent_level

agent_vars ==
    <<iteration_count, previous_page_state, page_state_unchanged_count,
      error_history, failed_actions>>
browser_vars ==
    <<context_pages, page, analyzer_page, executor_page, disambiguation_page, pages_created>>
api_call_vars ==
    <<api_phase, api_calls, use_history, attempt, api_result, conversation_history,
      api_log, api_payload, api_sleeps>>
stream_vars == <<stream_phase, stream_input, stream_pos, stream_yielded, stream_attempt>>
api_vars == <<api_call_vars, stream_vars>>
exec_vars == <<exec_call, exec_result>>
parse_vars == <<parse_call, parse_result>>
config_vars == <<config_call, config_result>>
main_vars == <<main_pc, shutdown_calls, main_log>>
analyzer_vars == <<analysis_call, analysis_result>>
verdict_vars == <<verdict_call, verdict_result>>
shutdown_vars == <<shutdown_log>>
logger_vars == <<indent_level>>
more_vars == <<analyzer_vars, verdict_vars, shutdown_vars, logger_vars>>
unit_vars == <<exec_vars, parse_vars, config_vars, main_vars, more_vars>>
vars ==
    <<phase, tasks_started, status, is_risky, agent_vars, browser_vars, last,
      decision_errors, api_vars, unit_vars>>

NoDecision == Decision("none", "", "", NoArgs, "", "", "")

\* The observation of a step: which step it was, the pages the analysis and
\* the fingerprint read, whether the fingerprint equalled the previous one,
\* the checks made, the decision and what _execute_decision returned and did,
\* the records appended to failed_actions, the page.goto calls made, the
\* tabs a click opened and whether the last of them loaded, the navigation
\* inputs of a start, whether the operator interrupted (Ctrl+C) during
\* the step.
NoTrace ==
    [step |-> "none", analyzed |-> 0, fingerprinted |-> 0, fp_same |-> FALSE,
     captcha_checked |-> FALSE, completion_checked |-> FALSE, decision_requested |-> FALSE,
     decision |-> NoDecision, executed |-> FALSE,
     error |-> "", success |-> FALSE, user_input |-> "", task_complete |-> FALSE,
     ops |-> <<>>, confirm_asked |-> FALSE, confirm_typed |-> "",
     appended |-> 0, gotos |-> 0, tabs_opened |-> 0, tab_loaded |-> FALSE,
     refine_gotos |-> 0, nav |-> Nav(FALSE, "ok", "query", "ok"),
     interrupt |-> FALSE]

\* The last consecutive_error_threshold entries of a sequence.
Latest(seq) ==
    IF Len(seq) > consecutive_error_threshold THEN Tail(seq) ELSE seq

CurrentBrowser ==
    Browser(context_pages, page, analyzer_page, executor_page, disambiguation_page,
            pages_created)

SetBrowser(b) ==
    /\ context_pages' = b.pages
    /\ page' = b.agent
    /\ analyzer_page' = b.analyzer
    /\ executor_page' = b.executor
    /\ disambiguation_page' = b.disambiguation
    /\ pages_created' = b.created

\* No method called so far.
NoCall == [op |-> "none"]

\* NvidiaAPIClient.__init__: no call made, no conversation.
api_init ==
    /\ api_phase = "idle"
    /\ api_calls = 0
    /\ use_history = FALSE
    /\ attempt = 0
    /\ api_result = None
    /\ conversation_history = <<>>
    /\ api_log = <<>>
    /\ api_payload = <<>>
    /\ api_sleeps = <<>>
    /\ stream_phase = "idle"
    /\ stream_input = <<>>
    /\ stream_pos = 0
    /\ stream_yielded = <<>>
    /\ stream_attempt = 0
    /\ exec_call = NoCall
    /\ exec_result = [result |-> NoResult, acted |-> FALSE]
    /\ parse_call = NoCall
    /\ parse_result = <<FALSE, None, "">>
    /\ config_call = NoCall
    /\ config_result = [outcome |-> "none", api_key |-> None]
    /\ main_pc = "start"
    /\ shutdown_calls = 0
    /\ main_log = <<>>
    /\ analysis_call = NoCall
    /\ analysis_result = [modal_window_open |-> FALSE, modal_open |-> FALSE,
                          page_sections |-> TRUE]
    /\ verdict_call = NoCall
    /\ verdict_result = [verdict |-> FALSE, text |-> ""]
    /\ shutdown_log = NoCall
    /\ indent_level = 0

\* BrowserAgent.__init__ and initialize
Init ==
    /\ phase = "idle"
    /\ tasks_started = 0
    /\ status = "none"
    /\ is_risky = FALSE
    /\ iteration_count = 0
    /\ previous_page_state = None
    /\ page_state_unchanged_count = 0
    /\ error_history = <<>>
    /\ failed_actions = <<>>
    /\ context_pages = initialize.pages
    /\ page = initialize.agent
    /\ analyzer_page = initialize.analyzer
    /\ executor_page = initialize.executor
    /\ disambiguation_page = initialize.disambiguation
    /\ pages_created = initialize.created
    /\ last = NoTrace
    /\ decision_errors = <<>>
    /\ api_init

(***************************************************************************)
(* Actions.                                                                *)
(***************************************************************************)
\* execute_task, lines 113-305 and 746-748: the task analysis, the start
\* navigation and, when the page loaded, the entry into the loop.
ExecuteTask(risky, nav) ==
    /\ phase = "idle"
    /\ tasks_started < MaxTasks
    /\ tasks_started' = tasks_started + 1
    /\ is_risky' = risky
    /\ decision_errors' = <<>>
    /\ LET start == start_navigation(nav)
       IN  /\ last' = [NoTrace EXCEPT !.step = "start", !.gotos = start.gotos,
                                      !.refine_gotos = start.refine_gotos,
                                      !.nav = nav]
           /\ IF start.status = "loop"
              THEN /\ phase' = "loop"
                   /\ status' = "none"
                   /\ iteration_count' = 0
                   /\ error_history' = <<>>
                   /\ UNCHANGED <<previous_page_state, page_state_unchanged_count,
                                  failed_actions>>
              ELSE /\ phase' = "idle"
                   /\ status' = start.status
                   /\ UNCHANGED agent_vars
    /\ UNCHANGED browser_vars
    /\ UNCHANGED <<api_vars, unit_vars>>

\* A loop condition that admits one iteration too many.
LoopContinues_inclusive(count) ==
    IF count <= max_iterations
    THEN phase' = "loop" /\ status' = "none"
    ELSE phase' = "idle" /\ status' = "max_iterations_reached"

\* Lines 751 and 987-991: the loop's condition after an iteration that did
\* not return: the next iteration, or max_iterations reached.
LoopContinues(count) ==
    IF count < max_iterations
    THEN phase' = "loop" /\ status' = "none"
    ELSE phase' = "idle" /\ status' = "max_iterations_reached"

Returns(result_status) ==
    phase' = "idle" /\ status' = result_status

\* Lines 751-764: the top of an iteration up to the fingerprint.
IterationTop(fp) ==
    /\ phase = "loop"
    /\ iteration_count < max_iterations
    /\ iteration_count' = iteration_count + 1
    /\ previous_page_state' = fp

TopTrace(fp, step) ==
    [NoTrace EXCEPT !.step = step,
                    !.analyzed = analyzer_page,
                    !.fingerprinted = page,
                    !.fp_same = (previous_page_state # None /\ fp = previous_page_state),
                    !.captcha_checked = TRUE]

\* Lines 755-757 and 975-977: analyzer.analyze() raises; the iteration ends.
IterAnalyzeFails ==
    /\ phase = "loop"
    /\ iteration_count < max_iterations
    /\ iteration_count' = iteration_count + 1
    /\ LoopContinues(iteration_count + 1)
    /\ last' = [NoTrace EXCEPT !.step = "analyze_failed", !.analyzed = analyzer_page]
    /\ UNCHANGED <<tasks_started, is_risky, previous_page_state,
                   page_state_unchanged_count, error_history, failed_actions>>
    /\ UNCHANGED <<browser_vars, decision_errors>>
    /\ UNCHANGED <<api_vars, unit_vars>>

\* A CAPTCHA pause that keeps the fingerprint state.
IterCaptcha_keeping_fingerprint(fp) ==
    /\ IterationTop(fp)
    /\ page_state_unchanged_count' =
           _has_page_changed(fp, previous_page_state, page_state_unchanged_count)
    /\ LoopContinues(iteration_count + 1)
    /\ last' = [TopTrace(fp, "captcha") EXCEPT
                   !.ops = <<Op("wait_for_user_action", executor_page)>>]
    /\ UNCHANGED <<tasks_started, is_risky, error_history, failed_actions>>
    /\ UNCHANGED <<browser_vars, decision_errors>>
    /\ UNCHANGED <<api_vars, unit_vars>>

\* Lines 766-778: the CAPTCHA verdict is yes; the operator is waited for.
IterCaptcha(fp) ==
    /\ phase = "loop"
    /\ iteration_count < max_iterations
    /\ iteration_count' = iteration_count + 1
    /\ previous_page_state' = None
    /\ page_state_unchanged_count' = 0
    /\ LoopContinues(iteration_count + 1)
    /\ last' = [TopTrace(fp, "captcha") EXCEPT
                   !.ops = <<Op("wait_for_user_action", executor_page)>>]
    /\ UNCHANGED <<tasks_started, is_risky, error_history, failed_actions>>
    /\ UNCHANGED <<browser_vars, decision_errors>>
    /\ UNCHANGED <<api_vars, unit_vars>>

\* Lines 766-778 and action_executor.py 614-639: the CAPTCHA verdict is yes
\* and the operator answers the wait prompt with Ctrl+C.  wait_for_user_action
\* catches the KeyboardInterrupt and returns False; the loop does not read
\* the returned value and goes on as after a passed check.
IterCaptchaInterrupted(fp) ==
    /\ phase = "loop"
    /\ iteration_count < max_iterations
    /\ iteration_count' = iteration_count + 1
    /\ previous_page_state' = None
    /\ page_state_unchanged_count' = 0
    /\ LoopContinues(iteration_count + 1)
    /\ last' = [TopTrace(fp, "captcha") EXCEPT
                   !.ops = <<Op("wait_for_user_action", executor_page)>>,
                   !.interrupt = TRUE]
    /\ UNCHANGED <<tasks_started, is_risky, error_history, failed_actions>>
    /\ UNCHANGED <<browser_vars, decision_errors>>
    /\ UNCHANGED <<api_vars, unit_vars>>

\* Lines 755-757 and 973-985: a KeyboardInterrupt is raised while the page is
\* analysed; the inner handler re-raises it and the outer one returns
\* "interrupted".
IterInterrupted ==
    /\ phase = "loop"
    /\ iteration_count < max_iterations
    /\ iteration_count' = iteration_count + 1
    /\ Returns("interrupted")
    /\ last' = [NoTrace EXCEPT !.step = "interrupted", !.analyzed = analyzer_page,
                               !.interrupt = TRUE]
    /\ UNCHANGED <<tasks_started, is_risky, previous_page_state,
                   page_state_unchanged_count, error_history, failed_actions>>
    /\ UNCHANGED <<browser_vars, decision_errors>>
    /\ UNCHANGED <<api_vars, unit_vars>>

\* Lines 783-793: the completion check says yes.
IterComplete(fp) ==
    /\ IterationTop(fp)
    /\ page_state_unchanged_count' =
           _has_page_changed(fp, previous_page_state, page_state_unchanged_count)
    /\ Returns("completed")
    /\ last' = [TopTrace(fp, "complete") EXCEPT !.completion_checked = TRUE]
    /\ UNCHANGED <<tasks_started, is_risky, error_history, failed_actions>>
    /\ UNCHANGED <<browser_vars, decision_errors>>
    /\ UNCHANGED <<api_vars, unit_vars>>

\* Lines 795-797 and 975-977: the decision request raises; the iteration ends.
IterDecideFails(fp) ==
    /\ IterationTop(fp)
    /\ page_state_unchanged_count' =
           _has_page_changed(fp, previous_page_state, page_state_unchanged_count)
    /\ LoopContinues(iteration_count + 1)
    /\ last' = [TopTrace(fp, "decide_failed") EXCEPT !.completion_checked = TRUE,
                                                     !.decision_requested = TRUE]
    /\ UNCHANGED <<tasks_started, is_risky, error_history, failed_actions>>
    /\ UNCHANGED <<browser_vars, decision_errors>>
    /\ UNCHANGED <<api_vars, unit_vars>>

\* Lines 751-971: an iteration that obtains the decision d and executes it;
\* e is what the page, the driver and the operator do during the execution.
IterAct(fp, d, e) ==
    /\ IterationTop(fp)
    /\ pages_created + e.opens <= MaxPages
    /\ ~decision_raises(d, is_risky,
                        _has_page_changed(fp, previous_page_state,
                                          page_state_unchanged_count),
                        failed_actions)
    /\ \E unchanged \in {_has_page_changed(fp, previous_page_state,
                                             page_state_unchanged_count)} :
       \E action_result \in {_execute_decision(d, unchanged, failed_actions, is_risky,
                                                CurrentBrowser, e)} :
       \E recorded \in {record_attempt(failed_actions, d, action_result)} :
       \E outcome \in {after_action(action_result, unchanged, error_history)} :
           /\ page_state_unchanged_count' = unchanged
           /\ failed_actions' = recorded
           /\ error_history' = history_after(action_result, unchanged, error_history)
           /\ SetBrowser(action_result.b)
           /\ IF outcome \in {"completed", "stuck"}
              THEN Returns(outcome)
              ELSE LoopContinues(iteration_count + 1)
           /\ last' = [TopTrace(fp, "acted") EXCEPT
                          !.completion_checked = TRUE,
                          !.decision_requested = TRUE,
                          !.decision = d,
                          !.executed = TRUE,
                          !.error = action_result.error,
                          !.success = action_result.success,
                          !.user_input = action_result.user_input,
                          !.task_complete = action_result.task_complete,
                          !.ops = action_result.ops,
                          !.confirm_asked = action_result.confirm_asked,
                          !.confirm_typed = IF action_result.confirm_asked
                                            THEN e.confirm ELSE "",
                          !.appended = Len(recorded) - Len(failed_actions),
                          !.tabs_opened = action_result.b.created - pages_created,
                          !.tab_loaded = (action_result.b.created > pages_created
                                          /\ e.loads)]
           /\ decision_errors' = Latest(Append(decision_errors, action_result.error))
           /\ indent_level' = indent_after_decision(action_result, indent_level)
    /\ UNCHANGED <<tasks_started, is_risky>>
    /\ UNCHANGED <<api_vars, exec_vars, parse_vars, config_vars, main_vars,
                   analyzer_vars, verdict_vars, shutdown_vars>>

\* Lines 863 and 975-977: _execute_decision raises on the decision d; the
\* loop's handler logs the exception and the iteration ends, nothing recorded.
IterActRaises(fp, d) ==
    /\ IterationTop(fp)
    /\ decision_raises(d, is_risky,
                       _has_page_changed(fp, previous_page_state,
                                         page_state_unchanged_count),
                       failed_actions)
    /\ page_state_unchanged_count' =
           _has_page_changed(fp, previous_page_state, page_state_unchanged_count)
    /\ LoopContinues(iteration_count + 1)
    /\ last' = [TopTrace(fp, "act_raised") EXCEPT !.completion_checked = TRUE,
                                                  !.decision_requested = TRUE,
                                                  !.decision = d]
    /\ UNCHANGED <<tasks_started, is_risky, error_history, failed_actions>>
    /\ UNCHANGED <<browser_vars, decision_errors>>
    /\ UNCHANGED <<api_vars, unit_vars>>

(***************************************************************************)
(* The environment: the inputs the actions draw.                           *)
(***************************************************************************)
NoDisambig == [kind |-> "none", strategy |-> None, has_args |-> FALSE, args |-> NoArgs]

Exec(count, raises, opens, loads, disambig, confirm_typed, answer) ==
    [count |-> count, raises |-> raises, opens |-> opens, loads |-> loads,
     disambig |-> disambig, confirm |-> confirm_typed, answer |-> answer]

Fingerprints == {"F1", "F2"}

ClickA == Decision("object", "click", "text", {<<"text", "A">>}, "", "open A", "")
AskUser == Decision("object", "ask_user", "", NoArgs, "", "which one?", "")
ConfirmComplete == Decision("object", "confirm_complete", "", NoArgs, "done", "", "")
BadJson == Decision("bad_json", "", "", NoArgs, "", "", "")

LoopDecisions == {ClickA, AskUser, ConfirmComplete, BadJson}

LoopExecs ==
    {Exec(1, "none", 0, TRUE, NoDisambig, "", "the first"),
     Exec(0, "none", 0, TRUE, NoDisambig, "", "the first"),
     Exec(1, "element is disabled", 0, TRUE, NoDisambig, "", "")}

LoopNavs ==
    {Nav(TRUE, "ok", "query", "ok"), Nav(FALSE, "ok", "query", "ok"),
     Nav(TRUE, "other", "query", "ok")}

\* The first task of a session.
FirstTask(risky, nav) ==
    tasks_started = 0 /\ ExecuteTask(risky, nav)

Next ==
    \/ \E nav \in LoopNavs : FirstTask(FALSE, nav)
    \/ IterAnalyzeFails
    \/ \E fp \in Fingerprints : IterCaptcha(fp)
    \/ \E fp \in Fingerprints : IterCaptchaInterrupted(fp)
    \/ IterInterrupted
    \/ \E fp \in Fingerprints : IterComplete(fp)
    \/ \E fp \in Fingerprints : IterDecideFails(fp)
    \/ \E fp \in Fingerprints, d \in LoopDecisions, e \in LoopExecs : IterAct(fp, d, e)

Spec == Init /\ [][Next]_vars

(***************************************************************************)
(* A session: several tasks given to one agent, one after the other.       *)
(***************************************************************************)
SessionDecisions == {ClickA, ConfirmComplete}

\* The start of a task: no start URL; the first goto succeeds or fails; after
\* a name-resolution failure each answer to the search prompt, each outcome
\* of the second goto and each outcome of the verification of the search page.
SessionNavs ==
    {Nav(FALSE, "ok", "query", "ok")}
    \cup {Nav(TRUE, goto1, "query", "ok") : goto1 \in {"ok", "other"}}
    \cup {Nav(TRUE, "unresolved", search, "ok") :
             search \in {"empty", "no_query", "bad_json", "raise"}}
    \cup {Nav(TRUE, "unresolved", "query", goto2) :
             goto2 \in {"ok", "unresolved", "other"}}
    \cup {NavChecked(Nav(TRUE, "unresolved", "query", "ok"), check) :
             check \in {"refined", "not_refined", "raise"}}

SessionExecs ==
    {Exec(1, "none", 0, TRUE, NoDisambig, "", ""),
     Exec(0, "none", 0, TRUE, NoDisambig, "", "")}

NextSession ==
    \/ \E nav \in SessionNavs : ExecuteTask(FALSE, nav)
    \/ IterCaptcha("F1")
    \/ \E d \in SessionDecisions, e \in SessionExecs : IterAct("F1", d, e)

SpecSession == Init /\ [][NextSession]_vars

(***************************************************************************)
(* Tabs: a task whose clicks open new tabs.                                *)
(***************************************************************************)
PressEnter == Decision("object", "press_key", "", NoArgs, "Enter", "", "")

TabDecisions == {ClickA, PressEnter}

TabExecs ==
    {Exec(1, "none", opens, loads, NoDisambig, "", "") :
        opens \in 0 .. MaxOpens, loads \in BOOLEAN}

NextTabs ==
    \/ \E nav \in LoopNavs : FirstTask(FALSE, nav)
    \/ \E fp \in Fingerprints, d \in TabDecisions, e \in TabExecs : IterAct(fp, d, e)

SpecTabs == Init /\ [][NextTabs]_vars

(***************************************************************************)
(* Decisions: the last iteration of a task, risky or not, whose decision   *)
(* names a risky action or carries values the validator rejects.           *)
(***************************************************************************)
ClickPay ==
    Decision("object", "click", "text", {<<"text", "Buy">>}, "", "Pay for the order", "")
SubmitSend ==
    Decision("object", "submit", "css", {<<"css", "#pay">>}, "", "confirm the order", "")
ClickDeleteUpper ==
    Decision("object", " CLICK ", "role", {<<"role", "button">>, <<"name", "Remove">>}, "",
             "DELETE the item", "")
CompleteConfirmed ==
    Decision("object", "confirm_complete", "", NoArgs, "done", "order confirmed", "")
FillPay ==
    Decision("object", "fill", "placeholder", {<<"placeholder", "Card">>}, "4111",
             "pay by card", "")
WaitLong == Decision("object", "wait", "", NoArgs, "70000", "", "")
ScrollLeft == Decision("object", "scroll", "", NoArgs, "left", "", "")
GotoBare == Decision("object", "goto", "", NoArgs, "example.com", "", "")
FillEmpty ==
    Decision("object", "fill", "placeholder", {<<"placeholder", "Email">>}, "", "", "")
ClickXpath ==
    Decision("object", "click", "xpath", {<<"xpath", "//a">>}, "", "open", "")
Hover == Decision("object", "hover", "text", {<<"text", "A">>}, "", "", "")

NumericAction ==
    Decision("object_numeric_action", "5", "text", {<<"text", "A">>}, "", "", "")
NumericValue ==
    Decision("object_numeric_value", "fill", "placeholder", {<<"placeholder", "Age">>},
             "42", "", "")
ListArgs ==
    Decision("object_list_args", "click", "text", {<<"0", "A">>}, "", "open A", "")
NumericReason ==
    Decision("object_numeric_reason", "click", "text", {<<"text", "A">>}, "", "7", "")

\* {"action": "wait", "value": 5000}: the duration as a JSON number.
WaitNumber == Decision("object_numeric_value", "wait", "", NoArgs, "5000", "", "")

MistypedDecisions == {NumericAction, NumericValue, ListArgs, NumericReason, WaitNumber}

\* Scroll and wait decisions the validator accepts.
ScrollUp == Decision("object", "scroll", "", NoArgs, "up", "", "")
ScrollDown == Decision("object", "scroll", "", NoArgs, "Down", "", "")
ScrollBare == Decision("object", "scroll", "", NoArgs, "", "", "")
WaitText == Decision("object", "wait", "", NoArgs, "500", "", "")
WaitZero == Decision("object", "wait", "", NoArgs, "0", "", "")
WaitMax == Decision("object", "wait", "", NoArgs, "60000", "", "")
WaitBare == Decision("object", "wait", "", NoArgs, "", "", "")

TimingDecisions == {ScrollUp, ScrollDown, ScrollBare, WaitText, WaitZero, WaitMax, WaitBare}

GateDecisions ==
    {ClickA, ClickPay, SubmitSend, ClickDeleteUpper, CompleteConfirmed, FillPay}

RejectedDecisions ==
    {WaitLong, ScrollLeft, GotoBare, FillEmpty, ClickXpath, Hover}

DecisionExecs ==
    {Exec(1, "none", 0, TRUE, NoDisambig, typed, "") : typed \in {"y", " Yes ", "n", ""}}

\* The state before the last iteration of a first task: either nothing has
\* been decided so far (every analysis failed), or ClickA has failed on page
\* F1 and the following decision request has failed on the same page.
InitDecision ==
    /\ phase = "loop"
    /\ tasks_started = 1
    /\ status = "none"
    /\ is_risky \in BOOLEAN
    /\ iteration_count = max_iterations - 1
    /\ \/ /\ previous_page_state = None
          /\ page_state_unchanged_count = 0
          /\ error_history = <<>>
          /\ failed_actions = <<>>
          /\ decision_errors = <<>>
          /\ last = [NoTrace EXCEPT !.step = "analyze_failed",
                                    !.analyzed = initialize.analyzer]
       \/ /\ previous_page_state = "F1"
          /\ page_state_unchanged_count = 1
          /\ error_history = <<"element_not_found">>
          /\ failed_actions =
                 <<attempt_record(ClickA, ErrorResult("element_not_found", <<>>, FALSE,
                                                      initialize))>>
          /\ decision_errors = <<"element_not_found">>
          /\ last = [NoTrace EXCEPT !.step = "decide_failed",
                                    !.analyzed = initialize.analyzer,
                                    !.fingerprinted = initialize.agent,
                                    !.fp_same = TRUE,
                                    !.captcha_checked = TRUE,
                                    !.completion_checked = TRUE,
                                    !.decision_requested = TRUE]
    /\ context_pages = initialize.pages
    /\ page = initialize.agent
    /\ analyzer_page = initialize.analyzer
    /\ executor_page = initialize.executor
    /\ disambiguation_page = initialize.disambiguation
    /\ pages_created = initialize.created
    /\ api_init

NextDecision ==
    \/ \E fp \in Fingerprints,
          d \in GateDecisions \cup RejectedDecisions \cup MistypedDecisions
                   \cup TimingDecisions,
          e \in DecisionExecs : IterAct(fp, d, e)
    \/ \E fp \in Fingerprints, d \in MistypedDecisions : IterActRaises(fp, d)

SpecDecision == InitDecision /\ [][NextDecision]_vars

(***************************************************************************)
(* Disambiguation: a task whose clicks and fills match several elements,   *)
(* so that _execute_decision asks the LLM which one is meant.              *)
(***************************************************************************)
\* The disambiguation reply: the call raises ("raise"), returns nothing
\* ("empty"), text that is not JSON ("bad_json"), an empty list, or an
\* object that names a strategy and args.
Disambig(kind, strategy, has_args, args) ==
    [kind |-> kind, strategy |-> strategy, has_args |-> has_args, args |-> args]

Disambigs ==
    {Disambig("raise", None, FALSE, NoArgs), Disambig("empty", None, FALSE, NoArgs),
     Disambig("bad_json", None, FALSE, NoArgs), Disambig("empty_list", None, FALSE, NoArgs),
     Disambig("object", "text", TRUE, {<<"text", "A">>})}

FillA == Decision("object", "fill", "label", {<<"label", "Name">>}, "Ann", "", "")

IndentDecisions == {ClickA, FillA, AskUser, CompleteConfirmed, BadJson, WaitLong}

IndentExecs ==
    {Exec(1, "none", 0, TRUE, NoDisambig, "", "the first")}
        \cup {Exec(2, "none", 0, TRUE, disambig, "", "") : disambig \in Disambigs}

NextIndent ==
    \/ FirstTask(FALSE, Nav(TRUE, "ok", "query", "ok"))
    \/ \E fp \in Fingerprints, d \in IndentDecisions, e \in IndentExecs : IterAct(fp, d, e)

SpecIndent == Init /\ [][NextIndent]_vars

(***************************************************************************)
(* NvidiaAPIClient._call_with_retry, the blocking call path.               *)
(***************************************************************************)
max_retries == 3
retry_delay_base == 1
rate_limit_delay == 10
MaxPosts == 5
MaxCalls == 2

\* What one requests.post does: a response with its status code and body, or
\* (status code 0) a connection error raised.  The body of a 200 is the
\* content of the first choice's message, or "no_choices" for a JSON
\* object without choices.
Response(status_code, body) == [status_code |-> status_code, body |-> body]

Responses ==
    {Response(0, ""), Response(429, ""), Response(500, ""),
     Response(200, "answer"), Response(200, ""), Response(200, "no_choices")}

Message(role, content) == [role |-> role, content |-> content]

\* The message argument of the calls.
UserMessage == "prompt"

\* A payload that carries the history whatever use_history says.
_build_payload_always_with_history(history, message, with_history) ==
    Append(history, Message("user", message))

\* Lines 61-71: the messages of the payload.
_build_payload(history, message, with_history) ==
    Append(IF with_history THEN history ELSE <<>>, Message("user", message))

\* One pass of the while body in which a 429 counts as an attempt.
post_counting_429(attempt_now, response) ==
    IF response.status_code = 0
    THEN [attempt |-> attempt_now + 1,
          outcome |-> IF attempt_now + 1 < max_retries THEN "continue" ELSE "raise",
          text |-> None,
          sleep |-> IF attempt_now + 1 < max_retries
                    THEN retry_delay_base * 2 ^ attempt_now ELSE 0]
    ELSE IF response.status_code = 429
    THEN [attempt |-> attempt_now + 1, outcome |-> "continue", text |-> None,
          sleep |-> rate_limit_delay]
    ELSE IF response.status_code # 200
    THEN [attempt |-> attempt_now, outcome |-> "raise", text |-> None,
          sleep |-> 0]
    ELSE IF response.body = "no_choices"
    THEN [attempt |-> attempt_now, outcome |-> "raise", text |-> None,
          sleep |-> 0]
    ELSE [attempt |-> attempt_now, outcome |-> "return", text |-> response.body,
          sleep |-> 0]

\* One pass of the while body in which the last connection error does not
\* raise.
post_never_raising_connection(attempt_now, response) ==
    IF response.status_code = 0
    THEN [attempt |-> attempt_now + 1, outcome |-> "continue", text |-> None,
          sleep |-> retry_delay_base * 2 ^ attempt_now]
    ELSE IF response.status_code = 429
    THEN [attempt |-> attempt_now, outcome |-> "continue", text |-> None,
          sleep |-> rate_limit_delay]
    ELSE IF response.status_code # 200
    THEN [attempt |-> attempt_now, outcome |-> "raise", text |-> None,
          sleep |-> 0]
    ELSE IF response.body = "no_choices"
    THEN [attempt |-> attempt_now, outcome |-> "raise", text |-> None,
          sleep |-> 0]
    ELSE [attempt |-> attempt_now, outcome |-> "return", text |-> response.body,
          sleep |-> 0]

\* Lines 85-130, one pass of the while body: the attempt counter afterwards,
\* whether the loop continues, the call returns or raises, the text returned.
post(attempt_now, response) ==
    IF response.status_code = 0
    THEN \* lines 118-127: a connection error
         [attempt |-> attempt_now + 1,
          outcome |-> IF attempt_now + 1 < max_retries THEN "continue" ELSE "raise",
          text |-> None,
          sleep |-> IF attempt_now + 1 < max_retries
                    THEN retry_delay_base * 2 ^ attempt_now ELSE 0]
    ELSE IF response.status_code = 429
    THEN \* lines 91-96
         [attempt |-> attempt_now, outcome |-> "continue", text |-> None,
          sleep |-> rate_limit_delay]
    ELSE IF response.status_code # 200
    THEN \* lines 98-100 and 128-130
         [attempt |-> attempt_now, outcome |-> "raise", text |-> None,
          sleep |-> 0]
    ELSE IF response.body = "no_choices"
    THEN \* lines 116 and 128-130
         [attempt |-> attempt_now, outcome |-> "raise", text |-> None,
          sleep |-> 0]
    ELSE \* lines 103-115
         [attempt |-> attempt_now, outcome |-> "return", text |-> response.body,
          sleep |-> 0]

\* Lines 81-83: _call_with_retry is entered.
ApiCall(history) ==
    /\ api_phase # "calling"
    /\ api_calls < MaxCalls
    /\ api_phase' = "calling"
    /\ api_calls' = api_calls + 1
    /\ use_history' = history
    /\ attempt' = 0
    /\ api_result' = None
    /\ api_log' = <<>>
    /\ api_payload' = <<>>
    /\ api_sleeps' = <<>>
    /\ UNCHANGED conversation_history
    /\ UNCHANGED <<phase, tasks_started, status, is_risky, agent_vars, browser_vars,
                   last, decision_errors, stream_vars, unit_vars>>

\* Lines 84-130: one pass of the while loop, the server answering response;
\* a loop whose condition fails afterwards falls through and returns None.
ApiPost(response) ==
    /\ api_phase = "calling"
    /\ attempt < max_retries
    /\ Len(api_log) < MaxPosts
    /\ \E step \in {post(attempt, response)} :
           /\ attempt' = step.attempt
           /\ api_phase' = IF step.outcome = "raise" THEN "raised"
                            ELSE IF step.outcome = "return" THEN "returned"
                            ELSE IF step.attempt < max_retries THEN "calling"
                            ELSE "returned"
           /\ api_result' = step.text
           /\ conversation_history' =
                  IF step.outcome = "return" /\ use_history /\ step.text # ""
                  THEN Append(conversation_history, Message("assistant", step.text))
                  ELSE conversation_history
           /\ api_sleeps' = IF step.sleep > 0 THEN Append(api_sleeps, step.sleep)
                             ELSE api_sleeps
    /\ api_log' = Append(api_log, response)
    /\ api_payload' = _build_payload(conversation_history, UserMessage, use_history)
    /\ UNCHANGED <<api_calls, use_history>>
    /\ UNCHANGED <<phase, tasks_started, status, is_risky, agent_vars, browser_vars,
                   last, decision_errors, stream_vars, unit_vars>>

NextApi ==
    \/ \E history \in BOOLEAN : ApiCall(history)
    \/ \E response \in Responses : ApiPost(response)

SpecApi == Init /\ [][NextApi]_vars

(***************************************************************************)
(* ActionExecutor.click and ActionExecutor.fill called directly.           *)
(***************************************************************************)
MaxMatches == 3

\* click(locator_strategy, locator_args, allow_multiple=...) on a page where
\* e.count elements match the lookup.
ExecutorClick(locator_strategy, locator_args, allow_multiple, e) ==
    /\ \E r \in {click(CurrentBrowser, locator_strategy, locator_args, allow_multiple, e)} :
           /\ exec_result' = [result |-> r[1], acted |-> r[3]]
           /\ SetBrowser(r[2])
    /\ exec_call' = [op |-> "click", strategy |-> locator_strategy,
                     args |-> locator_args, allow_multiple |-> allow_multiple,
                     count |-> e.count, raises |-> e.raises]
    /\ UNCHANGED <<phase, tasks_started, status, is_risky, agent_vars, last,
                   decision_errors, api_vars, parse_vars, config_vars, main_vars,
                   more_vars>>

\* fill(locator_strategy, locator_args, text)
ExecutorFill(locator_strategy, locator_args, e) ==
    /\ \E r \in {fill(locator_strategy, locator_args, e)} :
           exec_result' = [result |-> r[1], acted |-> r[2]]
    /\ exec_call' = [op |-> "fill", strategy |-> locator_strategy,
                     args |-> locator_args, allow_multiple |-> FALSE,
                     count |-> e.count, raises |-> e.raises]
    /\ UNCHANGED <<phase, tasks_started, status, is_risky, agent_vars, browser_vars,
                   last, decision_errors, api_vars, parse_vars, config_vars, main_vars,
                   more_vars>>

\* press_key(key, locator_strategy, locator_args)
ExecutorPressKey(key, locator_strategy, locator_args, e) ==
    /\ \E r \in {press_key(key, locator_strategy, locator_args, e)} :
           exec_result' = [result |-> r[1], acted |-> r[2]]
    /\ exec_call' = [op |-> "press_key", key |-> key, strategy |-> locator_strategy,
                     args |-> locator_args, count |-> e.count, raises |-> e.raises]
    /\ UNCHANGED <<phase, tasks_started, status, is_risky, agent_vars, browser_vars,
                   last, decision_errors, api_vars, parse_vars, config_vars, main_vars,
                   more_vars>>

\* close_modal(close_strategy); acted says whether Escape was pressed.
ExecutorCloseModal(close_strategy, e) ==
    /\ \E r \in {close_modal(close_strategy, CurrentBrowser, e)} :
           /\ exec_result' = [result |-> r[1], acted |-> r[3]]
           /\ SetBrowser(r[2])
    /\ exec_call' = [op |-> "close_modal", close_strategy |-> close_strategy,
                     count |-> e.count, raises |-> e.raises]
    /\ UNCHANGED <<phase, tasks_started, status, is_risky, agent_vars, last,
                   decision_errors, api_vars, parse_vars, config_vars, main_vars,
                   more_vars>>

\* scroll(direction) and wait_for_timeout(ms); the boolean returned is the
\* success field of the result, acted says that the call returned.
ExecutorScroll(direction, e) ==
    /\ exec_result' = [result |-> ExecResult(scroll(direction, e), "", None, 0),
                       acted |-> TRUE]
    /\ exec_call' = [op |-> "scroll", direction |-> direction, raises |-> e.raises]
    /\ UNCHANGED <<phase, tasks_started, status, is_risky, agent_vars, browser_vars,
                   last, decision_errors, api_vars, parse_vars, config_vars, main_vars,
                   more_vars>>

ExecutorWaitForTimeout(ms) ==
    /\ exec_result' = [result |-> ExecResult(wait_for_timeout(ms), "", None, 0),
                       acted |-> TRUE]
    /\ exec_call' = [op |-> "wait_for_timeout", ms |-> ms]
    /\ UNCHANGED <<phase, tasks_started, status, is_risky, agent_vars, browser_vars,
                   last, decision_errors, api_vars, parse_vars, config_vars, main_vars,
                   more_vars>>

CloseStrategies ==
    {CloseStrategy(FALSE, "", "", NoArgs),
     CloseStrategy(TRUE, "esc", "", NoArgs),
     CloseStrategy(TRUE, "outside", "", NoArgs),
     CloseStrategy(TRUE, "button", "", NoArgs),
     CloseStrategy(TRUE, "", "text", {<<"text", "Close">>}),
     CloseStrategy(TRUE, "swipe", "", NoArgs)}

ScrollDirections == {"down", "up", "Down", "left", ""}
WaitDurations == {-1, 0, 1000, 60000, 70000}

ExecutorStrategies ==
    {"role", "label", "placeholder", "text", "alt", "title", "testid", "id", "name",
     "data-city", "aria-label", "css", ""}

\* The argument maps: none, the strategy's own key with a value or with an
\* empty value.
ExecutorArgs(strategy) ==
    {NoArgs, {<<strategy, "A">>}, {<<strategy, "">>}}

ExecutorExecs ==
    {Exec(count, raises, 0, FALSE, NoDisambig, "", "") :
        count \in 0..MaxMatches, raises \in {"none", "element is not visible"}}

NextExecutor ==
    \/ \E strategy \in ExecutorStrategies, allow_multiple \in BOOLEAN, e \in ExecutorExecs :
           \E args \in ExecutorArgs(strategy) :
               ExecutorClick(strategy, args, allow_multiple, e)
    \/ \E strategy \in ExecutorStrategies, e \in ExecutorExecs :
           \E args \in ExecutorArgs(strategy) : ExecutorFill(strategy, args, e)
    \/ \E key \in {"Escape", "Enter"}, strategy \in {"", "text"}, e \in ExecutorExecs :
           \E args \in ExecutorArgs(strategy) : ExecutorPressKey(key, strategy, args, e)
    \/ \E close_strategy \in CloseStrategies, e \in ExecutorExecs :
           ExecutorCloseModal(close_strategy, e)
    \/ \E direction \in ScrollDirections, e \in ExecutorExecs : ExecutorScroll(direction, e)
    \/ \E ms \in WaitDurations : ExecutorWaitForTimeout(ms)

SpecExecutor == Init /\ [][NextExecutor]_vars

(***************************************************************************)
(* DecisionValidator.parse_decision on the text of a decision.  Whitespace *)
(* in the texts is the space; the marker 'решение:' is written "reshenie:".*)
(***************************************************************************)
marker == "reshenie:"
\* The backtick is written "~".
fence == "~~~"

\* sub occurs in s at index i.
At(s, i, sub) == i >= 1 /\ i + Len(sub) - 1 <= Len(s) /\ SubSeq(s, i, i + Len(sub) - 1) = sub

\* The first index >= from at which sub occurs in s, 0 when there is none.
FindFrom(s, sub, from) ==
    LET found == {i \in from..Len(s) : At(s, i, sub)}
    IN  IF found = {} THEN 0 ELSE CHOOSE i \in found : \A j \in found : i <= j

\* The last index at which the character c occurs in s, 0 when there is none.
LastIndexOf(s, c) ==
    LET found == {i \in 1..Len(s) : SubSeq(s, i, i) = c}
    IN  IF found = {} THEN 0 ELSE CHOOSE i \in found : \A j \in found : i >= j

\* The first index >= from that holds no space (Len(s) + 1 when all do).
SkipSpaces(s, from) ==
    LET rest == {i \in from..Len(s) : SubSeq(s, i, i) # " "}
    IN  IF rest = {} THEN Len(s) + 1 ELSE CHOOSE i \in rest : \A j \in rest : i <= j

\* Line 32, re.search(marker \s*({.+}), IGNORECASE | DOTALL): the group
\* of the leftmost match ("": no match).  The group runs from the brace after
\* the marker to the last closing brace of the text.
marker_group(s) ==
    LET close == LastIndexOf(s, "}")
        open(i) == SkipSpaces(s, i + Len(marker))
        matches == {i \in 1..Len(s) :
                       /\ At(lower(s), i, marker)
                       /\ At(s, open(i), "{")
                       /\ close >= open(i) + 2}
    IN  IF matches = {} THEN ""
        ELSE SubSeq(s, open(CHOOSE i \in matches : \A j \in matches : i <= j), close)

\* Line 40, the search for a fenced block: the group of
\* the leftmost match ("": no match).  After the opening fence, the tag and
\* the whitespace, the group runs to the next backtick, which must begin a
\* fence.
fence_group(s) ==
    LET after(i) == IF At(s, i + 3, "json") THEN i + 7 ELSE i + 3
        start(i) == SkipSpaces(s, after(i))
        tick(i) == FindFrom(s, "~", start(i))
        matches == {i \in 1..Len(s) :
                       /\ At(s, i, fence)
                       /\ tick(i) > start(i)
                       /\ At(s, tick(i), fence)}
        first == CHOOSE i \in matches : \A j \in matches : i <= j
    IN  IF matches = {} THEN "" ELSE SubSeq(s, start(first), tick(first) - 1)

\* Lines 27-42: the text handed to json.loads.
clean_str(decision_str) ==
    LET stripped == strip(decision_str)
        unmarked == IF Contains(lower(stripped), marker) /\ marker_group(stripped) # ""
                    THEN strip(marker_group(stripped))
                    ELSE stripped
    IN  IF Contains(unmarked, fence) /\ fence_group(unmarked) # ""
        THEN strip(fence_group(unmarked))
        ELSE unmarked

\* The JSON texts of the model with the values they denote.
JsonTexts ==
    {<<"{\"action\":\"click\"}",
       Decision("object", "click", "", NoArgs, "", "", "")>>,
     <<"{\"action\":\"click\",\"args\":{\"text\":\"A\"}}",
       Decision("object", "click", "", {<<"text", "A">>}, "", "", "")>>,
     <<"{\"action\":\"click\",\"reason\":\"press ~OK~\"}",
       Decision("object", "click", "", NoArgs, "", "press ~OK~", "")>>,
     <<"{\"action\":\"wait\",\"reason\":\"reshenie: {x}\"}",
       Decision("object", "wait", "", NoArgs, "", "reshenie: {x}", "")>>,
     <<"{\"value\":\"1\"}", Decision("no_action", "", "", NoArgs, "1", "", "")>>,
     <<"[1]", Decision("not_object", "", "", NoArgs, "", "", "")>>}

\* Line 45, json.loads: the value of a JSON text, "bad_json" for other text.
json_loads(text) ==
    IF \E p \in JsonTexts : p[1] = text
    THEN (CHOOSE p \in JsonTexts : p[1] = text)[2]
    ELSE Decision("bad_json", "", "", NoArgs, "", "", "")

\* DecisionValidator.parse_decision on a text.
parse_decision_str(decision_str) ==
    IF decision_str = "" THEN parse_decision(Decision("empty", "", "", NoArgs, "", "", ""))
    ELSE parse_decision(json_loads(clean_str(decision_str)))

\* The shapes in which the LLM wraps a JSON text, and the padding around.
Shapes == {"bare", "fence_json", "fence", "marker", "thinking_marker", "fence_upper"}

Shaped(shape, text) ==
    CASE shape = "bare" -> text
      [] shape = "fence_json" -> "~~~json " \o text \o " ~~~"
      [] shape = "fence" -> "~~~ " \o text \o " ~~~"
      [] shape = "marker" -> "reshenie: " \o text
      [] shape = "thinking_marker" -> "DUMAYU: the page {1}. RESHENIE: " \o text
      [] shape = "fence_upper" -> "~~~JSON " \o text \o " ~~~"

Pads == {"none", "before", "after"}

Padded(pad, text) ==
    CASE pad = "none" -> text
      [] pad = "before" -> "  " \o text
      [] pad = "after" -> text \o " "

BodyTexts == {p[1] : p \in JsonTexts} \cup {"click it"}

ParseDecision(body, shape, pad) ==
    /\ parse_call' = [op |-> "parse_decision", body |-> body, shape |-> shape,
                      pad |-> pad]
    /\ parse_result' = parse_decision_str(Padded(pad, Shaped(shape, body)))
    /\ UNCHANGED <<phase, tasks_started, status, is_risky, agent_vars, browser_vars,
                   last, decision_errors, api_vars, exec_vars, config_vars, main_vars,
                   more_vars>>

NextParse ==
    \E body \in BodyTexts, shape \in Shapes, pad \in Pads :
        parse_call = NoCall /\ ParseDecision(body, shape, pad)

SpecParse == Init /\ [][NextParse]_vars

(***************************************************************************)
(* ConfigLoader.get_nvidia_api_config.  source is the configured           *)
(* api_key.source ("": the key is absent), env_value what os.getenv        *)
(* returns and direct_value the configured api_key.value (None: unset).    *)
(***************************************************************************)
\* Lines 39-73: the configuration handed out or the error raised.
get_nvidia_api_config(source, env_value, direct_value) ==
    IF source \in {"", "env"}
    THEN \* lines 48-56
         IF env_value = None \/ env_value = ""
         THEN [outcome |-> "credential_error", api_key |-> None]
         ELSE [outcome |-> "config", api_key |-> env_value]
    ELSE IF source = "direct"
    THEN \* lines 57-62
         IF direct_value = None \/ direct_value = "" \/ StartsWith(direct_value, "YOUR_")
         THEN [outcome |-> "credential_error", api_key |-> None]
         ELSE [outcome |-> "config", api_key |-> direct_value]
    ELSE \* lines 63-64
         [outcome |-> "config_error", api_key |-> None]

KeySources == {"", "env", "direct", "file"}
KeyValues == {None, "", "YOUR_API_KEY_HERE", "your_key", " YOUR_KEY", "nvapi-1"}

GetNvidiaApiConfig(source, env_value, direct_value) ==
    /\ config_call' = [op |-> "get_nvidia_api_config", source |-> source,
                       env_value |-> env_value, direct_value |-> direct_value]
    /\ config_result' = get_nvidia_api_config(source, env_value, direct_value)
    /\ UNCHANGED <<phase, tasks_started, status, is_risky, agent_vars, browser_vars,
                   last, decision_errors, api_vars, exec_vars, parse_vars, main_vars,
                   more_vars>>

NextConfig ==
    \E source \in KeySources, env_value \in KeyValues, direct_value \in KeyValues :
        GetNvidiaApiConfig(source, env_value, direct_value)

SpecConfig == Init /\ [][NextConfig]_vars

(***************************************************************************)
(* main() of src/main.py: the CLI session.  What happens at a prompt:      *)
(*   "exit"           an exit command is typed                             *)
(*   "empty"          an empty line is typed                               *)
(*   "prompt_interrupt"  Ctrl+C while input() waits                        *)
(*   "prompt_error"   input() raises (end of input)                        *)
(*   "task_result"    a task is typed and execute_task returns a dict      *)
(*   "task_none"      a task is typed and execute_task returns None        *)
(*   "task_raise"     a task is typed and execute_task raises              *)
(*   "task_interrupt" a task is typed and KeyboardInterrupt reaches main   *)
(***************************************************************************)
MaxPrompts == 3

PromptEvents ==
    {"exit", "empty", "prompt_interrupt", "prompt_error", "task_result", "task_none",
     "task_raise", "task_interrupt"}

\* A session loop that a raising task ends.
after_prompt_raise_ends(event) ==
    IF event \in {"exit", "task_interrupt", "prompt_interrupt", "prompt_error", "task_raise"}
    THEN "ended"
    ELSE "prompt"

\* Lines 30-72, one pass of the while loop: "prompt" when the loop goes on,
\* "ended" when the try statement is left.
after_prompt(event) ==
    IF event = "exit" THEN "ended"                  \* lines 38-40: break
    ELSE IF event = "empty" THEN "prompt"           \* lines 42-44: continue
    ELSE IF event = "prompt_interrupt" THEN "ended" \* line 36, lines 69-70
    ELSE IF event = "prompt_error" THEN "ended"     \* line 36, lines 71-72
    ELSE IF event = "task_result" THEN "prompt"     \* lines 48-59
    ELSE IF event = "task_none" THEN "prompt"       \* line 51 raises, lines 64-65
    ELSE IF event = "task_raise" THEN "prompt"      \* lines 64-65
    ELSE "ended"                                    \* lines 61-63: break

\* BrowserAgent.shutdown of an agent that holds (or not) a context and a
\* browser, where context.close() and browser.close() raise or not: which
\* closes were attempted, the message logged, and whether the exception
\* left shutdown.
shutdown(has_context, has_browser, context_raises, browser_raises) ==
    IF has_context /\ context_raises
    THEN \* line 105 raises: lines 110-111
         [op |-> "shutdown", has_context |-> has_context, has_browser |-> has_browser,
          context_close |-> TRUE, browser_close |-> FALSE,
          logged |-> "error", raised |-> FALSE]
    ELSE IF has_browser /\ browser_raises
    THEN \* line 107 raises: lines 110-111
         [op |-> "shutdown", has_context |-> has_context, has_browser |-> has_browser,
          context_close |-> has_context, browser_close |-> TRUE,
          logged |-> "error", raised |-> FALSE]
    ELSE \* line 108
         [op |-> "shutdown", has_context |-> has_context, has_browser |-> has_browser,
          context_close |-> has_context, browser_close |-> has_browser,
          logged |-> "success", raised |-> FALSE]

\* What initialize() has assigned when it ends: (context, browser).  A
\* failed initialize has launched the browser or not, and created the
\* context only after the browser.
Resources(outcome) ==
    IF outcome = "ok" THEN {<<TRUE, TRUE>>}
    ELSE {<<FALSE, FALSE>>, <<FALSE, TRUE>>, <<TRUE, TRUE>>}

\* Line 24: BrowserAgent() is constructed, or its constructor raises (the API
\* configuration is refused) and main ends without an agent.
MainConstruct(raises) ==
    /\ main_pc = "start"
    /\ main_pc' = IF raises THEN "no_agent" ELSE "constructed"
    /\ UNCHANGED <<shutdown_calls, main_log>>
    /\ UNCHANGED <<phase, tasks_started, status, is_risky, agent_vars, browser_vars,
                   last, decision_errors, api_vars, exec_vars, parse_vars, config_vars,
                   more_vars>>

\* Lines 26-27 and 69-75: agent.initialize() returns, raises or is interrupted.
MainInitialize(outcome) ==
    /\ main_pc = "constructed"
    /\ main_pc' = IF outcome = "ok" THEN "prompt" ELSE "ended"
    /\ shutdown_calls' = IF outcome = "ok" THEN shutdown_calls ELSE shutdown_calls + 1
    /\ main_log' = <<"initialize_" \o outcome>>
    /\ IF outcome = "ok" THEN UNCHANGED shutdown_log
       ELSE \E held \in Resources(outcome), context_raises, browser_raises \in BOOLEAN :
                shutdown_log' = shutdown(held[1], held[2], context_raises, browser_raises)
    /\ UNCHANGED <<phase, tasks_started, status, is_risky, agent_vars, browser_vars,
                   last, decision_errors, api_vars, exec_vars, parse_vars, config_vars,
                   analyzer_vars, verdict_vars, logger_vars>>

\* Lines 30-75: one pass of the session loop; leaving the try statement runs
\* the finally clause, which calls agent.shutdown.
MainPrompt(event) ==
    /\ main_pc = "prompt"
    /\ Len(main_log) <= MaxPrompts
    /\ main_pc' = after_prompt(event)
    /\ shutdown_calls' = IF after_prompt(event) = "ended" THEN shutdown_calls + 1
                          ELSE shutdown_calls
    /\ main_log' = Append(main_log, event)
    /\ IF after_prompt(event) # "ended" THEN UNCHANGED shutdown_log
       ELSE \E context_raises, browser_raises \in BOOLEAN :
                shutdown_log' = shutdown(TRUE, TRUE, context_raises, browser_raises)
    /\ UNCHANGED <<phase, tasks_started, status, is_risky, agent_vars, browser_vars,
                   last, decision_errors, api_vars, exec_vars, parse_vars, config_vars,
                   analyzer_vars, verdict_vars, logger_vars>>

NextMain ==
    \/ \E raises \in BOOLEAN : MainConstruct(raises)
    \/ \E outcome \in {"ok", "raise", "interrupt"} : MainInitialize(outcome)
    \/ \E event \in PromptEvents : MainPrompt(event)

SpecMain == Init /\ [][NextMain]_vars

(***************************************************************************)
(* NvidiaAPIClient.stream_call: the lines of a 200 response.               *)
(***************************************************************************)
MaxLines == 3

\* A line of the response: whether it begins with "data:", and what follows:
\* nothing ("blank"), the terminator "[DONE]" ("done"), text that is not JSON
\* ("raw"), a JSON object without choices ("no_choices"), a JSON value that
\* is not an object ("scalar"), or a chunk whose delta carries a reasoning
\* and a content fragment ("": absent).
Line(data_prefix, kind, reasoning, content) ==
    [data_prefix |-> data_prefix, kind |-> kind, reasoning |-> reasoning,
     content |-> content]

Chunk(reasoning, content) == Line(TRUE, "chunk", reasoning, content)
Done == Line(TRUE, "done", "", "")

Lines ==
    {Line(FALSE, "blank", "", ""), Line(TRUE, "blank", "", ""), Done,
     Line(TRUE, "raw", "", "raw"), Line(TRUE, "no_choices", "", ""),
     Line(TRUE, "scalar", "", ""),
     Chunk("r1", "c1"), Chunk("", "c2"), Chunk("r3", "")}

\* Sequences of at most n lines.
RECURSIVE LineSeqs(_)
LineSeqs(n) ==
    IF n = 0 THEN {<<>>}
    ELSE LineSeqs(n - 1) \cup
         {Append(seq, line) : seq \in {x \in LineSeqs(n - 1) : Len(x) = n - 1},
                              line \in Lines}

\* Lines 198-224, the body of the loop over the lines: the fragments it
\* yields and whether the loop continues or the call raises.
line_step(line) ==
    IF line.kind = "blank"
    THEN \* lines 199-200 (an empty line) and 205-206 (only "data:")
         [yields |-> <<>>, outcome |-> "continue"]
    ELSE IF line.kind = "done"
    THEN \* lines 205-206
         [yields |-> <<>>, outcome |-> "continue"]
    ELSE IF line.kind = "raw"
    THEN \* lines 207-212
         [yields |-> <<line.content>>, outcome |-> "continue"]
    ELSE IF line.kind = "scalar"
    THEN \* line 215: .get on a value that is not an object; lines 240-242
         [yields |-> <<>>, outcome |-> "raise"]
    ELSE IF line.kind = "no_choices"
    THEN \* lines 215-217
         [yields |-> <<>>, outcome |-> "continue"]
    ELSE \* lines 218-225
         [yields |-> (IF line.reasoning # "" THEN <<line.reasoning>> ELSE <<>>)
                     \o (IF line.content # "" THEN <<line.content>> ELSE <<>>),
          outcome |-> "continue"]

\* Lines 179-197: stream_call is entered and the post is answered 200 with
\* the lines given.
StreamCall(lines) ==
    /\ stream_phase # "streaming"
    /\ stream_phase' = IF lines = <<>> THEN "returned" ELSE "streaming"
    /\ stream_input' = lines
    /\ stream_pos' = 0
    /\ stream_yielded' = <<>>
    /\ stream_attempt' = 0
    /\ UNCHANGED <<phase, tasks_started, status, is_risky, agent_vars, browser_vars,
                   last, decision_errors, api_call_vars, unit_vars>>

\* Lines 198-228: the next line of the response is consumed; after the last
\* one the call returns.
StreamLine ==
    /\ stream_phase = "streaming"
    /\ \E step \in {line_step(stream_input[stream_pos + 1])} :
           /\ stream_yielded' = stream_yielded \o step.yields
           /\ stream_phase' = IF step.outcome = "raise" THEN "raised"
                               ELSE IF step.outcome = "return" THEN "returned"
                               ELSE IF stream_pos + 1 = Len(stream_input) THEN "returned"
                               ELSE "streaming"
    /\ stream_pos' = stream_pos + 1
    /\ UNCHANGED <<stream_input, stream_attempt>>
    /\ UNCHANGED <<phase, tasks_started, status, is_risky, agent_vars, browser_vars,
                   last, decision_errors, api_call_vars, unit_vars>>

\* Lines 198 and 230-239: resp.iter_lines raises a connection-level error
\* before the next line arrives.  The handler counts the attempt; below
\* max_retries the loop posts the request again and the response is read
\* from its first line, else the error is raised to the consumer.
StreamBreak ==
    /\ stream_phase = "streaming"
    /\ stream_attempt' = stream_attempt + 1
    /\ IF stream_attempt + 1 < max_retries
       THEN stream_phase' = "streaming" /\ stream_pos' = 0
       ELSE stream_phase' = "raised" /\ stream_pos' = stream_pos
    /\ UNCHANGED <<stream_input, stream_yielded>>
    /\ UNCHANGED <<phase, tasks_started, status, is_risky, agent_vars, browser_vars,
                   last, decision_errors, api_call_vars, unit_vars>>

NextStream ==
    \/ \E lines \in LineSeqs(MaxLines) : stream_phase = "idle" /\ StreamCall(lines)
    \/ StreamLine
    \/ StreamBreak

SpecStream == Init /\ [][NextStream]_vars

(***************************************************************************)
(* PageAnalyzer.analyze: the two modal detections.                         *)
(***************************************************************************)
MaxCandidates == 2

\* The height below which _detect_modals does not count an element as a modal.
modal_min_height == 150

\* An element of the page that one of the modal lookups can match: kind is
\* what makes it match ("dialog": role=dialog, "alertdialog": role=alertdialog,
\* "modal": a div whose class contains modal, "popup": a div whose class
\* contains popup, "fade": class fade show), visible is is_visible(), height
\* the height of bounding_box().
Element(kind, visible, height) == [kind |-> kind, visible |-> visible, height |-> height]

\* get_by_role("dialog")
by_role_dialog(e) == e.kind = "dialog"

\* locator('[role="dialog"], [role="alertdialog"]')
by_role_selector(e) == e.kind \in {"dialog", "alertdialog"}

\* locator('div[class*="modal"], div[class*="popup"], [role="dialog"], .fade.show')
by_modal_selector(e) == e.kind \in {"modal", "popup", "dialog", "fade"}

\* _check_modal_visible: the first role=dialog element is visible, or the
\* last element of the CSS selector is visible.
_check_modal_visible(elements) ==
    LET dialogs == SelectSeq(elements, by_role_dialog)
        modals == SelectSeq(elements, by_modal_selector)
    IN  \/ Len(dialogs) > 0 /\ dialogs[1].visible
        \/ Len(modals) > 0 /\ modals[Len(modals)].visible

\* _detect_modals: some dialog or alertdialog is visible and at least
\* modal_min_height high, or the last element of the CSS selector is.
_detect_modals(elements) ==
    LET dialogs == SelectSeq(elements, by_role_selector)
        modals == SelectSeq(elements, by_modal_selector)
    IN  \/ \E i \in 1..Len(dialogs) :
               dialogs[i].visible /\ dialogs[i].height >= modal_min_height
        \/ /\ Len(modals) > 0
           /\ modals[Len(modals)].visible
           /\ modals[Len(modals)].height >= modal_min_height

\* analyze() on a page with these candidates: _get_search_hints asks
\* _check_modal_visible and emits the page-level sections only without a
\* modal window; _detect_modals sets analysis.modal_open.
Analyze(elements) ==
    /\ analysis_call = NoCall
    /\ analysis_call' = [op |-> "analyze", elements |-> elements]
    /\ \E modal_window_open \in {_check_modal_visible(elements)} :
           analysis_result' = [modal_window_open |-> modal_window_open,
                               modal_open |-> _detect_modals(elements),
                               page_sections |-> ~modal_window_open]
    /\ UNCHANGED <<phase, tasks_started, status, is_risky, agent_vars, browser_vars,
                   last, decision_errors, api_vars, exec_vars, parse_vars, config_vars,
                   main_vars, verdict_vars, shutdown_vars, logger_vars>>

ElementKinds == {"dialog", "alertdialog", "modal", "popup", "fade"}
ElementHeights == {100, 150, 300}
Elements ==
    {Element(kind, visible, height) :
        kind \in ElementKinds, visible \in BOOLEAN, height \in ElementHeights}
ElementSeqs == UNION {[1..n -> Elements] : n \in 0..MaxCandidates}

NextAnalyzer == \E elements \in ElementSeqs : Analyze(elements)

SpecAnalyzer == Init /\ [][NextAnalyzer]_vars

(***************************************************************************)
(* The agent's yes/no checks: NvidiaAPIClient.call / call_async and what   *)
(* _check_if_task_complete and _check_if_captcha_page make of the result.  *)
(***************************************************************************)
\* What the LLM request does: kind "text" answers the text, "none" makes the
\* blocking path return None, "raise" makes it raise.
Reply(kind, text) == [kind |-> kind, text |-> text]

\* call(message, use_history, stream): with stream None the client's
\* stream_default decides; a streaming call returns the generator of
\* stream_call, whose body has not started to run, else the result of
\* _call_with_retry.
call(stream, stream_default, reply) ==
    LET streaming == IF stream = None THEN stream_default ELSE stream
    IN  IF streaming THEN [kind |-> "generator", text |-> reply.text]
        ELSE IF reply.kind = "text" THEN [kind |-> "text", text |-> reply.text]
        ELSE [kind |-> reply.kind, text |-> ""]

\* call_async: the result of call, run in a thread pool.
call_async(stream, stream_default, reply) == call(stream, stream_default, reply)

\* `not response`: None and the empty string.
falsy(response) ==
    response.kind = "none" \/ (response.kind = "text" /\ response.text = "")

\* response.split(":", 1)[1].strip() when the text holds a colon, else
\* response[skip:].strip()
answer_text(response_text, skip) ==
    LET colon == FindFrom(response_text, ":", 1)
    IN  IF colon > 0 THEN strip(SubSeq(response_text, colon + 1, Len(response_text)))
        ELSE IF Len(response_text) <= skip THEN ""
        ELSE strip(SubSeq(response_text, skip + 1, Len(response_text)))

\* _check_if_task_complete from the call on: [verdict: is_complete, text: result].
\* A raising call and response.lower() on a generator (AttributeError) end
\* in the except branch.
_check_if_task_complete(response) ==
    IF response.kind \in {"raise", "generator"} \/ falsy(response)
    THEN [verdict |-> FALSE, text |-> ""]
    ELSE IF StartsWith(strip(lower(response.text)), "yes")
    THEN [verdict |-> TRUE, text |-> answer_text(response.text, 3)]
    ELSE [verdict |-> FALSE, text |-> ""]

\* _check_if_captcha_page from the call on: the boolean it returns (text
\* is unused).
_check_if_captcha_page(response) ==
    IF response.kind \in {"raise", "generator"} \/ falsy(response)
    THEN [verdict |-> FALSE, text |-> ""]
    ELSE LET response_lower == strip(lower(response.text))
         IN  [verdict |-> IF StartsWith(response_lower, "yes") THEN TRUE
                          ELSE IF StartsWith(response_lower, "no") THEN FALSE
                          ELSE Contains(response_lower, "yes"),
              text |-> ""]

\* The completion check of an agent whose client has this stream default;
\* the call passes no stream argument (line 1139).
CheckIfTaskComplete(stream_default, reply) ==
    /\ verdict_call' = [op |-> "_check_if_task_complete",
                        stream_default |-> stream_default, reply |-> reply]
    /\ verdict_result' = _check_if_task_complete(call_async(None, stream_default, reply))
    /\ UNCHANGED <<phase, tasks_started, status, is_risky, agent_vars, browser_vars,
                   last, decision_errors, api_vars, exec_vars, parse_vars, config_vars,
                   main_vars, analyzer_vars, shutdown_vars, logger_vars>>

\* The CAPTCHA check (line 1237).
CheckIfCaptchaPage(stream_default, reply) ==
    /\ verdict_call' = [op |-> "_check_if_captcha_page",
                        stream_default |-> stream_default, reply |-> reply]
    /\ verdict_result' = _check_if_captcha_page(call_async(None, stream_default, reply))
    /\ UNCHANGED <<phase, tasks_started, status, is_risky, agent_vars, browser_vars,
                   last, decision_errors, api_vars, exec_vars, parse_vars, config_vars,
                   main_vars, analyzer_vars, shutdown_vars, logger_vars>>

ReplyHeads == {"yes", "Yes", " yes", "no", "NO", "maybe yes", "captcha", ""}
ReplyTails == {"", ": done", " done", ":"}
Replies ==
    {Reply("text", head \o tail) : head \in ReplyHeads, tail \in ReplyTails}
        \cup {Reply("none", ""), Reply("raise", "")}

NextVerdict ==
    \/ \E stream_default \in BOOLEAN, reply \in Replies :
           CheckIfTaskComplete(stream_default, reply)
    \/ \E stream_default \in BOOLEAN, reply \in Replies :
           CheckIfCaptchaPage(stream_default, reply)

SpecVerdict == Init /\ [][NextVerdict]_vars

(***************************************************************************)
(* Properties of the loop.                                                 *)
(***************************************************************************)
\* C1: every step of the loop is one iteration that increments the iteration
\* counter by exactly one and never past max_iterations; the loop goes on
\* only while the counter is below max_iterations, and a run that ends with
\* none of "completed", "stuck", "interrupted" ends with "max_iterations_reached" after
\* exactly max_iterations iterations.
C1_LoopBounded ==
    [][phase = "loop" =>
          /\ iteration_count' = iteration_count + 1
          /\ iteration_count' <= max_iterations
          /\ phase' = "loop" => iteration_count' < max_iterations /\ status' = "none"
          /\ phase' = "idle" =>
                 \/ status' \in {"completed", "stuck", "interrupted"}
                 \/ status' = "max_iterations_reached" /\ iteration_count' = max_iterations
      ]_vars

C1_Witness ==
    /\ phase = "idle"
    /\ status = "max_iterations_reached"
    /\ iteration_count = max_iterations
    /\ last.step = "acted"

\* C2 (circuit breaker A): when an iteration that found the page fingerprint
\* equal to the previous one and ended with a failed decision is followed by
\* another such iteration, the second one returns "stuck" and the loop runs
\* no further iteration.
C2_BreakerA ==
    [][(/\ phase = "loop"
        /\ last.step = "acted" /\ last.fp_same /\ last.error # ""
        /\ last'.step = "acted" /\ last'.fp_same /\ last'.error # "")
       => (phase' = "idle" /\ status' = "stuck")
      ]_vars

\* The second of two unchanged-and-failed iterations has just returned: the
\* streak is 2 and the first one's error is the only one in the history.
C2_Witness ==
    /\ phase = "idle"
    /\ status = "stuck"
    /\ last.step = "acted" /\ last.fp_same /\ last.error # ""
    /\ page_state_unchanged_count = max_unchanged_threshold
    /\ Len(error_history) = 1

\* C3 (circuit breaker B): when the three latest decisions of a task have all
\* failed with the same error message, the task has ended with "stuck",
\* whatever the unchanged-page streak is.
C3_BreakerB ==
    (/\ Len(decision_errors) = consecutive_error_threshold
     /\ decision_errors[1] # ""
     /\ \A i \in DOMAIN decision_errors : decision_errors[i] = decision_errors[1])
    => (phase = "idle" /\ status = "stuck")

\* Three failures with the same error on a page that changed every time: the
\* unchanged-page breaker is not the one that ended the task.
C3_Witness ==
    /\ phase = "idle"
    /\ status = "stuck"
    /\ decision_errors = <<"element_not_found", "element_not_found", "element_not_found">>
    /\ page_state_unchanged_count = 0
    /\ last.step = "acted"

\* C4: the same-error breaker ends a task only when the three most recent
\* entries of the error history all equal the current error; in particular,
\* after failures E1, E2, E1 (E2 a different error message) on a page whose
\* unchanged streak is below the threshold, the task is not stuck.
C4_BreakerBConsecutiveOnly ==
    [][(phase = "loop" /\ page_state_unchanged_count' < max_unchanged_threshold) =>
          /\ status' = "stuck" =>
                 /\ Len(error_history') >= consecutive_error_threshold
                 /\ \A i \in 0 .. consecutive_error_threshold - 1 :
                        error_history'[Len(error_history') - i] = last'.error
          /\ (/\ last'.step = "acted"
              /\ Len(decision_errors') = consecutive_error_threshold
              /\ decision_errors'[1] # "" /\ decision_errors'[2] # ""
              /\ decision_errors'[1] # decision_errors'[2]
              /\ decision_errors'[3] = decision_errors'[1])
             => status' # "stuck"
      ]_vars

\* The failures E1, E2, E1 have happened and the task goes on.
C4_Witness ==
    /\ phase = "loop"
    /\ status = "none"
    /\ last.step = "acted"
    /\ decision_errors =
           <<"element_not_found", "invalid_decision:invalid_json", "element_not_found">>
    /\ error_history = decision_errors

\* C5 (repeated-decision block): when an iteration whose decision failed is
\* followed by an iteration whose decision has the same action, strategy and
\* args, the second decision is answered with BLOCKED_REPEATED_ACTION and no
\* Action Executor operation is invoked for it.
C5_RepeatBlocked ==
    [][(/\ phase = "loop"
        /\ last.step = "acted" /\ last.decision.kind = "object" /\ last.error # ""
        /\ last'.step = "acted" /\ last'.decision.kind = "object"
        /\ last'.decision.action = last.decision.action
        /\ last'.decision.strategy = last.decision.strategy
        /\ last'.decision.args = last.decision.args)
       => (last'.error = "BLOCKED_REPEATED_ACTION" /\ last'.ops = <<>>)
      ]_vars

(***************************************************************************)
(* Properties of a session.                                                *)
(***************************************************************************)
\* C6: when execute_task has entered the loop of a task, the run state is
\* empty: iteration counter 0, no previous page fingerprint, unchanged-page
\* streak 0, empty error history and empty attempted-action history.
C6_RunStateReset ==
    (phase = "loop" /\ last.step = "start") =>
        /\ iteration_count = 0
        /\ previous_page_state = None
        /\ page_state_unchanged_count = 0
        /\ error_history = <<>>
        /\ failed_actions = <<>>

(***************************************************************************)
(* Properties of the tabs.                                                 *)
(***************************************************************************)
\* C7 (single active page): the Browser Agent's page, the Page Analyzer's
\* page, the Action Executor's page and the Disambiguation Layer's page are
\* always the same page, and an iteration analyses, fingerprints, presses
\* keys and acts on elements on the page the executor is bound to.
C7_SingleActivePage ==
    [][/\ page' = executor_page'
       /\ analyzer_page' = executor_page'
       /\ disambiguation_page' = executor_page'
       /\ last'.step = "acted" =>
              /\ last'.analyzed = executor_page
              /\ last'.fingerprinted = executor_page
              /\ \A i \in DOMAIN last'.ops : last'.ops[i].page = executor_page
      ]_vars

\* C8 (new-tab handling): after a successful click that opened one or more
\* tabs, the last of which reached the content-loaded state, the context
\* holds exactly 2 pages, the original first tab and the newest tab, and the
\* executor is bound to the newest tab; a step that opens no tab changes
\* neither the context's pages nor the executor's page.
C8_NewTabHandling ==
    [][/\ (last'.step = "acted" /\ last'.tabs_opened > 0 /\ last'.tab_loaded) =>
              /\ context_pages' = <<initialize.agent, pages_created'>>
              /\ executor_page' = pages_created'
       /\ pages_created' = pages_created =>
              /\ context_pages' = context_pages
              /\ executor_page' = executor_page
      ]_vars

\* A second click that opened a tab has been handled: three or more pages
\* were created, two are left and the executor is on the newest.
C8_Witness ==
    /\ last.step = "acted" /\ last.success
    /\ last.tabs_opened > 0 /\ last.tab_loaded
    /\ pages_created - last.tabs_opened > 1
    /\ context_pages = <<initialize.agent, pages_created>>
    /\ executor_page = pages_created

(***************************************************************************)
(* Properties of the execution of a decision.                              *)
(***************************************************************************)
\* The decision is one the security gate is about: its action is click,
\* submit or confirm_complete and its strategy or reason contains a risk
\* keyword.
GateApplies(d) ==
    /\ d.kind = "object"
    /\ strip(lower(d.action)) \in {"click", "submit", "confirm_complete"}
    /\ \E kw \in risk_keywords :
           Contains(lower(d.strategy), kw) \/ Contains(lower(d.reason), kw)

\* C9 (security gate): for a decision of a risky task that the gate is
\* about, either the operator was asked and answered y or yes, or the
\* decision yielded an error result, no Action Executor operation was
\* invoked and no completion was signalled.
C9_SecurityGate ==
    (last.step = "acted" /\ is_risky /\ GateApplies(last.decision)) =>
        \/ last.confirm_asked /\ lower(strip(last.confirm_typed)) \in {"y", "yes"}
        \/ /\ last.error # ""
           /\ ~last.success
           /\ ~last.task_complete
           /\ last.ops = <<>>

\* The operator declined a risky submit: an error and nothing executed.
C9_Witness ==
    /\ last.step = "acted"
    /\ is_risky
    /\ last.decision = SubmitSend
    /\ last.confirm_asked /\ last.confirm_typed = "n"
    /\ last.error = "cancelled_by_operator"
    /\ last.ops = <<>>

\* C10 (validation gate): every decision for which an Action Executor
\* operation was invoked is one validate_full_decision accepts.
C10_ValidatedBeforeExecution ==
    (last.step = "acted" /\ last.ops # <<>>) => validate_full_decision(last.decision)[1]

\* C11: _execute_decision returns a result record for every decision handed
\* to it; no exception escapes it.
C11_DecisionNeverRaises ==
    (last.decision_requested /\ last.decision.kind # "none") =>
        (last.step = "acted" /\ last.executed)

\* The statuses execute_task names in a result.
TerminalStatuses ==
    {"completed", "stuck", "max_iterations_reached", "interrupted", "error",
     "navigation_error", "network_error"}

\* C12: whenever execute_task has returned, what it returned is a record
\* whose status is one of the terminal statuses.
C12_StructuredResult ==
    (phase = "idle" /\ tasks_started > 0) => status \in TerminalStatuses

\* C13: a step during which the operator interrupted has ended the task
\* with status "interrupted".
C13_InterruptEndsTask ==
    last.interrupt => (phase = "idle" /\ status = "interrupted")

\* C14 (attempted-action history): an iteration that obtains a decision and
\* runs _execute_decision appends exactly one record to failed_actions, and
\* no step removes or reorders the records already there.
C14_OneRecordPerDecision ==
    [][phase = "loop" =>
          /\ Len(failed_actions') >= Len(failed_actions)
          /\ SubSeq(failed_actions', 1, Len(failed_actions)) = failed_actions
          /\ last'.step = "acted" => Len(failed_actions') = Len(failed_actions) + 1
          /\ last'.step # "acted" => failed_actions' = failed_actions
      ]_vars

\* C15 (ask_user retry): an ask_user round leaves the error history as it
\* was, and the decision made after it is made under the same iteration
\* index: the iteration counter then equals its value at the ask_user.
C15_AskUserSameIteration ==
    [][/\ (last'.step = "acted" /\ last'.user_input # "") =>
              error_history' = error_history
       /\ (/\ phase = "loop"
           /\ last.step = "acted" /\ last.user_input # ""
           /\ last'.step = "acted")
          => iteration_count' = iteration_count
      ]_vars

\* The steps that compute a page fingerprint and compare it.
FingerprintSteps == {"captcha", "complete", "decide_failed", "acted", "act_raised"}

\* C16 (CAPTCHA pause): an iteration whose CAPTCHA verdict is yes makes no
\* completion check, requests no decision and executes none, and leaves no
\* previous fingerprint and an unchanged-page streak of 0; the fingerprint
\* comparison of the next iteration finds the page changed and the streak
\* stays 0.
C16_CaptchaClearsTracking ==
    [][/\ (phase = "loop" /\ last'.step = "captcha") =>
              /\ ~last'.completion_checked
              /\ ~last'.decision_requested
              /\ ~last'.executed
              /\ previous_page_state' = None
              /\ page_state_unchanged_count' = 0
       /\ (phase = "loop" /\ last.step = "captcha" /\ last'.step \in FingerprintSteps) =>
              /\ ~last'.fp_same
              /\ page_state_unchanged_count' = 0
      ]_vars

\* A CAPTCHA pause after a failed action of the task has just ended.
C16_Witness ==
    /\ phase = "loop"
    /\ last.step = "captcha"
    /\ iteration_count > 1
    /\ error_history # <<>>
    /\ previous_page_state = None
    /\ page_state_unchanged_count = 0

\* C17 (CAPTCHA pause and the iteration budget): a CAPTCHA pause leaves the
\* error history and the attempted-action history as they were, and the
\* iteration that analyses the page after the pause runs under the value the
\* iteration counter had when the CAPTCHA was detected.
C17_CaptchaKeepsBudget ==
    [][/\ (phase = "loop" /\ last'.step = "captcha") =>
              /\ error_history' = error_history
              /\ failed_actions' = failed_actions
       /\ (phase = "loop" /\ last.step = "captcha" /\ last'.analyzed > 0) =>
              iteration_count' = iteration_count
      ]_vars

\* C18 (unchanged-page streak): an iteration of a running task never leaves
\* the unchanged-page streak above max_unchanged_threshold, whether its
\* decision succeeded or failed.
C18_StreakBelowThree ==
    [][(phase = "loop" /\ last'.step \in FingerprintSteps) =>
           page_state_unchanged_count' <= max_unchanged_threshold]_vars

\* C19 (start-URL navigation): the retry loop of execute_task calls the
\* browser's goto at most MAX_RETRIES + 1 = 2 times, whatever the gotos and
\* the search-query answer do, and when the second goto fails with a
\* name-resolution or unreachable error the task ends with the network-error
\* status.
C19_StartNavigationBounded ==
    (last.step = "start") =>
        /\ last.gotos <= MAX_RETRIES + 1
        /\ (last.gotos = MAX_RETRIES + 1 /\ last.nav.goto2 = "unresolved") =>
               (phase = "idle" /\ status = "network_error")

\* The start URL and the search URL have both failed to resolve.
C19_Witness ==
    /\ last.step = "start"
    /\ last.nav = Nav(TRUE, "unresolved", "query", "unresolved")
    /\ last.gotos = MAX_RETRIES + 1
    /\ phase = "idle"
    /\ status = "network_error"

\* The responses of seq that are connection errors.
ConnectionErrors(seq) == Cardinality({i \in 1..Len(seq) : seq[i].status_code = 0})

\* seq is n >= 0 responses 429 followed by a 200 that carries a text.
Only429Then200(seq) ==
    /\ seq # <<>>
    /\ \A i \in 1..(Len(seq) - 1) : seq[i].status_code = 429
    /\ seq[Len(seq)].status_code = 200
    /\ seq[Len(seq)].body # "no_choices"

\* C20 (HTTP 429 and the retry budget): in _call_with_retry the attempt
\* counter counts the connection errors only, so after any number of 429
\* responses all max_retries = 3 attempts remain, and a server that answers
\* 429 n times and then 200 makes the call return the assistant text.
C20_429KeepsRetryBudget ==
    /\ attempt = ConnectionErrors(api_log)
    /\ (\A i \in 1..Len(api_log) : api_log[i].status_code = 429) =>
           (max_retries - attempt = 3 /\ api_phase \in {"idle", "calling"})
    /\ Only429Then200(api_log) =>
           /\ api_phase = "returned"
           /\ api_result = api_log[Len(api_log)].body
           /\ attempt = 0

\* The server has answered 429 twice and then 200, and the call has returned.
C20_Witness ==
    /\ api_log = <<Response(429, ""), Response(429, ""), Response(200, "answer")>>
    /\ api_phase = "returned"
    /\ api_result = "answer"
    /\ attempt = 0

\* The latest response of the current call (a 429 when there is none).
LastResponse == IF api_log = <<>> THEN Response(429, "") ELSE api_log[Len(api_log)]

\* C21 (connection-error retry budget): a call makes at most max_retries = 3
\* posts that end in a connection error and the third one raises; a 200 with
\* a text returns that text, also after one or two connection errors; a status
\* other than 200 and 429, or a 200 without choices, raises at once.
C21_ConnectionRetryBudget ==
    /\ ConnectionErrors(api_log) <= max_retries
    /\ (LastResponse.status_code = 0) =>
           api_phase = (IF ConnectionErrors(api_log) = max_retries
                        THEN "raised" ELSE "calling")
    /\ (LastResponse.status_code = 200 /\ LastResponse.body # "no_choices") =>
           (api_phase = "returned" /\ api_result = LastResponse.body)
    /\ (\/ LastResponse.status_code \notin {0, 429, 200}
        \/ LastResponse.status_code = 200 /\ LastResponse.body = "no_choices") =>
           (api_phase = "raised" /\ api_result = None)

\* The third attempt succeeds after two connection errors.
C21_Witness ==
    /\ api_log = <<Response(0, ""), Response(0, ""), Response(200, "answer")>>
    /\ api_phase = "returned"
    /\ api_result = "answer"

\* C22 (backoff schedule): in a call whose connection-level attempts all
\* fail, the sleeps made are 1, 2 and 4 seconds, in that order.
C22_BackoffSchedule ==
    (/\ api_phase = "raised"
     /\ Len(api_log) = max_retries
     /\ \A i \in 1..Len(api_log) : api_log[i].status_code = 0) =>
        api_sleeps = <<1, 2, 4>>

\* C23 (history growth): a history-backed call that returns extends the
\* conversation history by the user message sent followed by the assistant
\* message returned.
C23_HistoryGrowsByPair ==
    [][(api_phase = "calling" /\ use_history /\ api_phase' = "returned") =>
           conversation_history' =
               conversation_history \o <<Message("user", UserMessage),
                                          Message("assistant", api_result')>>
      ]_vars

\* C24 (one-shot calls): a call with use_history = false sends the single
\* user message in every post and leaves the conversation history as it
\* was, whether a post is answered 200, 429, another status or fails.
C24_OneShotLeavesHistory ==
    [][(~use_history') =>
           /\ conversation_history' = conversation_history
           /\ (api_log' # api_log /\ api_log' # <<>>) =>
                  api_payload' = <<Message("user", UserMessage)>>
      ]_vars

\* A one-shot call has returned after a 429 and a connection error, with a
\* conversation in the history.
C24_Witness ==
    /\ ~use_history
    /\ conversation_history # <<>>
    /\ api_log = <<Response(429, ""), Response(0, ""), Response(200, "answer")>>
    /\ api_phase = "returned"
    /\ api_payload = <<Message("user", UserMessage)>>

\* The lines of seq before the first terminator.
RECURSIVE BeforeDone(_)
BeforeDone(seq) ==
    IF seq = <<>> \/ seq[1].kind = "done" THEN <<>>
    ELSE <<seq[1]>> \o BeforeDone(Tail(seq))

\* The fragments of the lines of seq in emission order, the reasoning
\* fragment of a chunk before its content fragment.
RECURSIVE FragmentsInOrder(_)
FragmentsInOrder(seq) ==
    IF seq = <<>> THEN <<>>
    ELSE (IF seq[1].kind = "raw" THEN <<seq[1].content>>
          ELSE IF seq[1].kind = "chunk"
          THEN (IF seq[1].reasoning # "" THEN <<seq[1].reasoning>> ELSE <<>>)
               \o (IF seq[1].content # "" THEN <<seq[1].content>> ELSE <<>>)
          ELSE <<>>)
         \o FragmentsInOrder(Tail(seq))

\* C25 (streaming reconstruction): a stream_call that has returned has
\* yielded the fragments of the lines before the terminator, in emission
\* order (reasoning before content within a chunk), nothing for blank lines
\* and for [DONE], and nothing for a line after [DONE].
C25_StreamStopsAtDone ==
    (stream_phase = "returned") =>
        stream_yielded = FragmentsInOrder(BeforeDone(stream_input))

\* C26 (strict-mode fan-out, text strategy): a click with the text strategy
\* on a page where N > 1 elements match returns multiple_matches with count N
\* and clicks nothing when allow_multiple is false, and clicks and succeeds
\* when allow_multiple is true.
C26_TextFanOut ==
    (/\ exec_call.op = "click"
     /\ exec_call.strategy = "text"
     /\ ArgsGet(exec_call.args, "text", "") # ""
     /\ exec_call.count > 1
     /\ exec_call.raises = "none") =>
        IF exec_call.allow_multiple
        THEN exec_result.result.success /\ exec_result.acted
        ELSE /\ exec_result.result.error = "multiple_matches"
             /\ exec_result.result.count = exec_call.count
             /\ ~exec_result.acted

\* C27 (empty required key): click and fill called with a strategy whose own
\* key is present with an empty value return element_not_found or
\* invalid_params and act on no element.
C27_EmptyRequiredKey ==
    (/\ exec_call.op \in {"click", "fill"}
     /\ exec_call.strategy \notin {"", "role"}
     /\ exec_call.args = {<<exec_call.strategy, "">>}) =>
        /\ exec_result.result.error \in {"element_not_found", "invalid_params"}
        /\ ~exec_result.acted

\* C28 (shape-independent parsing): for a JSON object D with an action key,
\* parse_decision returns (valid, D) for the bare text of D, for D in a fence
\* with or without the json tag, and for the marker followed by D.
C28_ShapeIndependent ==
    (/\ parse_call.op = "parse_decision"
     /\ json_loads(parse_call.body).kind = "object"
     /\ parse_call.shape \in {"bare", "fence_json", "fence", "marker", "thinking_marker"}) =>
        (parse_result[1] /\ parse_result[2] = json_loads(parse_call.body))

\* The key the configured source resolves to.
ResolvedKey ==
    IF config_call.source \in {"", "env"} THEN config_call.env_value
    ELSE config_call.direct_value

\* C29 (API-key invariant): for the sources env and direct the loader hands
\* out a configuration exactly when the resolved key is non-empty and does
\* not begin with "YOUR_", and raises the credential error otherwise; an
\* unknown source raises the configuration error.
C29_ApiKeyInvariant ==
    (config_call.op = "get_nvidia_api_config") =>
        IF config_call.source \notin {"", "env", "direct"}
        THEN config_result.outcome = "config_error"
        ELSE IF ResolvedKey \in {None, ""} \/ StartsWith(ResolvedKey, "YOUR_")
        THEN config_result.outcome = "credential_error"
        ELSE config_result.outcome = "config" /\ config_result.api_key = ResolvedKey

\* C30 (shutdown on every exit): the session of a constructed agent has
\* called agent.shutdown exactly once when main has ended and not before,
\* whether it ended by the exit command, an interrupt at the prompt or during
\* a task, a failure of initialize or an unexpected exception; and after a
\* task that raised the session is at the prompt again.
C30_ShutdownOnEveryExit ==
    /\ (main_pc = "ended") => shutdown_calls = 1
    /\ (main_pc \in {"constructed", "prompt"}) => shutdown_calls = 0
    /\ (main_log # <<>> /\ main_log[Len(main_log)] \in {"task_raise", "task_none"}) =>
           main_pc = "prompt"

\* A task has raised, the session went on, and an interrupt during the next
\* task has ended it.
C30_Witness ==
    /\ main_log = <<"initialize_ok", "task_raise", "task_interrupt">>
    /\ main_pc = "ended"
    /\ shutdown_calls = 1

\* The page has one modal candidate: a visible element with a modal or popup
\* class or role=dialog, lower than modal_min_height.
OnlySmallCandidate ==
    /\ analysis_call.op = "analyze"
    /\ Len(analysis_call.elements) = 1
    /\ analysis_call.elements[1].kind \in {"modal", "popup", "dialog"}
    /\ analysis_call.elements[1].visible
    /\ analysis_call.elements[1].height < modal_min_height

\* C31 (modal detection consistent at the threshold): the analysis of a page
\* whose only modal candidate is a visible modal-classed, popup-classed or
\* role=dialog element lower than 150px has modal_open false and search
\* hints with the page-level sections; and in every analysis the page-level
\* sections are left out exactly when modal_open is true.
C31_ModalThresholdConsistent ==
    /\ OnlySmallCandidate =>
           ~analysis_result.modal_open /\ analysis_result.page_sections
    /\ (analysis_call.op = "analyze") =>
           (analysis_result.page_sections <=> ~analysis_result.modal_open)

\* C32 (close_modal defaults to Escape): close_modal called with no close
\* strategy, or with a strategy of type esc, presses Escape on the page and
\* returns a success result whenever the key press itself succeeds.
C32_CloseModalDefaultsToEscape ==
    (/\ exec_call.op = "close_modal"
     /\ ~exec_call.close_strategy.present \/ exec_call.close_strategy.type = "esc"
     /\ exec_call.raises = "none") =>
        exec_result.acted /\ exec_result.result.success

\* C33 (scroll and wait report a boolean): scroll and wait_for_timeout called
\* directly return a boolean for every direction and duration; and a scroll
\* decision with the value up or down, or a wait decision of 0..60000 ms,
\* that the agent hands to _execute_decision yields a successful action
\* result when the key presses succeed.
C33_ScrollWaitSucceed ==
    /\ (exec_call.op \in {"scroll", "wait_for_timeout"}) =>
           exec_result.result.success \in BOOLEAN
    /\ (/\ last.decision_requested
        /\ strip(lower(last.decision.action)) \in {"scroll", "wait"}
        /\ validate_full_decision(last.decision)[1]) =>
           (last.step = "acted" /\ last.success)

\* C34: a decision is rejected as BLOCKED_REPEATED_ACTION only if the
\* immediately preceding recorded decision of the task failed; a decision
\* whose previous execution succeeded is not blocked when it is repeated on
\* a page whose fingerprint did not change.
C34_BlockedOnlyAfterFailure ==
    [][(last'.step = "acted" /\ last'.error = "BLOCKED_REPEATED_ACTION") =>
           (failed_actions # <<>> /\ ~failed_actions[Len(failed_actions)].success)]_vars

\* Every iteration of the task so far has executed a decision, and none of
\* them failed.
NoFailureSoFar ==
    /\ phase = "loop"
    /\ Len(decision_errors) = iteration_count
    /\ \A i \in DOMAIN decision_errors : decision_errors[i] = ""

\* C35: the loop returns the stuck status only after at least two decisions
\* have failed in the current task; the first failed decision of a task does
\* not end it as stuck, even when it follows successful decisions that left
\* the page fingerprint unchanged.
C35_StuckNeedsTwoFailures ==
    [][(NoFailureSoFar /\ last'.step = "acted") => status' # "stuck"]_vars

\* Is seq the first Len(seq) entries of whole?
IsPrefix(seq, whole) ==
    Len(seq) <= Len(whole) /\ seq = SubSeq(whole, 1, Len(seq))

\* C36: stream_call delivers each fragment of a response at most once: what
\* the consumer has been given is always a prefix of the fragments of the
\* response, also after a connection error has interrupted the stream and
\* the call has been retried.
C36_FragmentsAtMostOnce ==
    IsPrefix(stream_yielded, FragmentsInOrder(stream_input))

\* C37: the agent's LLM verdicts do not depend on the configured streaming
\* default: for the same reply the task-completion check and the CAPTCHA
\* check return with the client's stream default on what they return with
\* it off.
C37_VerdictIgnoresStreamDefault ==
    /\ (verdict_call.op = "_check_if_task_complete") =>
           verdict_result = _check_if_task_complete(call_async(None, FALSE, verdict_call.reply))
    /\ (verdict_call.op = "_check_if_captcha_page") =>
           verdict_result = _check_if_captcha_page(call_async(None, FALSE, verdict_call.reply))

\* C38 (shutdown attempts to close both resources): a shutdown of an agent
\* that holds a browser has attempted browser.close, also when closing the
\* context raised; and a shutdown whose close raised has logged the error
\* and returned without raising.
C38_ShutdownClosesBoth ==
    (shutdown_log.op = "shutdown") =>
        /\ shutdown_log.has_browser => shutdown_log.browser_close
        /\ shutdown_log.has_context => shutdown_log.context_close
        /\ ~shutdown_log.raised

C40_AcceptedStrategiesResolve ==
    (/\ exec_call.op \in {"click", "fill"}
     /\ exec_call.strategy \in valid_strategies
     /\ ArgsGet(exec_call.args, exec_call.strategy, "") # ""
     /\ exec_call.count > 0) =>
        exec_result.result.error # "element_not_found"

====
